---- MODULE Spec2Model ----
(***************************************************************************)
(* A model of the statistics core vendored in js/libs/simple-statistics.js *)
(* of student_depression_analysis_Individuell.                             *)
(*                                                                         *)
(* JavaScript arrays are modelled as sequences and indexed through At,     *)
(* which keeps the zero-based index arithmetic of the source.  Numbers     *)
(* are exact: a fraction is a pair <<num, den>> with den > 0, and          *)
(* comparisons cross-multiply.  Floating-point rounding is not modelled.   *)
(***************************************************************************)
EXTENDS Integers, Sequences, FiniteSets, TLC

VARIABLES
    fn,     \* the function of the library that was called ("" before the call)
    x,      \* its first argument (a sample)
    arg,    \* its second argument
    ret,    \* what the call produced: a record with field kind
    frame   \* the local variables of a call that is still running

vars == <<fn, x, arg, ret, frame>>

(***************************************************************************)
(* Bounds of the model.                                                    *)
(***************************************************************************)
MaxLen == 4     \* longest sample drawn
MaxVal == 3     \* samples hold the integers 0..MaxVal
MaxDen == 4     \* quantile fractions are num/den with den <= MaxDen
MaxPs  == 2     \* longest array of fractions handed to quantile

Values == 0..MaxVal

RECURSIVE SeqsUpTo(_, _)
SeqsUpTo(S, n) ==
    IF n = 0 THEN {<<>>}
    ELSE LET shorter == SeqsUpTo(S, n - 1)
         IN  shorter \cup {Append(s, v) : s \in {t \in shorter : Len(t) = n - 1}, v \in S}

Samples == SeqsUpTo(Values, MaxLen)

(***************************************************************************)
(* JavaScript values.                                                      *)
(***************************************************************************)
At(arr, i) == arr[i + 1]
InRange(arr, i) == 0 <= i /\ i < Len(arr)
Slice(arr, from, to) == [n \in 1..(IF to > from THEN to - from ELSE 0) |-> arr[from + n]]

RECURSIVE Gcd(_, _)
Gcd(a, b) == IF b = 0 THEN a ELSE Gcd(b, a % b)

Abs(n) == IF n < 0 THEN -n ELSE n

\* exact fractions <<num, den>>, den > 0
RatEq(a, b) == a[1] * b[2] = b[1] * a[2]
RatLe(a, b) == a[1] * b[2] <= b[1] * a[2]
RatLt(a, b) == a[1] * b[2] < b[1] * a[2]
\* (in RatSub, RatNorm, RatAdd and RatMul the fractions are bound as members
\* of one-element sets, so that each is computed once)
RatSub(a, b) ==
    CHOOSE r \in {<<v[1] * w[2] - w[1] * v[2], v[2] * w[2]>> : v \in {a}, w \in {b}} : TRUE
RatAbs(a) == <<Abs(a[1]), a[2]>>

Returned(v) == [kind |-> "return", value |-> v]
Thrown(msg) == [kind |-> "throw", message |-> msg]

RECURSIVE SumSeq(_)
SumSeq(s) == IF s = <<>> THEN 0 ELSE s[1] + SumSeq(Tail(s))

\* Array.prototype.sort with the comparator a - b (stable): each element
\* is inserted after the elements that are not greater than it.
RECURSIVE InsertSorted(_, _)
InsertSorted(sorted, v) ==
    IF sorted = <<>> THEN <<v>>
    ELSE IF v < sorted[Len(sorted)]
         THEN Append(InsertSorted(SubSeq(sorted, 1, Len(sorted) - 1), v), sorted[Len(sorted)])
         ELSE Append(sorted, v)

RECURSIVE numericSort(_)
numericSort(a) ==
    IF a = <<>> THEN <<>>
    ELSE InsertSorted(numericSort(SubSeq(a, 1, Len(a) - 1)), a[Len(a)])

IsSorted(a) == \A i \in 1..(Len(a) - 1) : a[i] <= a[i + 1]

(***************************************************************************)
(* Quantiles: quantileSorted, quickselect, quantile.                       *)
(* A fraction p is <<num, den>>; x.length * p is an integer exactly when   *)
(* den divides x.length * num.  Half-integer indices (quantileIndex's      *)
(* idx - 0.5) are carried doubled: K2 stands for the index K2 / 2.         *)
(***************************************************************************)
\* The array the selection works on maps index + 1 to <<v>>, or to <<>> for
\* a hole or an element that is undefined; its domain is 1..length and the
\* negative indices written (which JavaScript keeps as properties).
Boxed(xs) == [i \in 1..Len(xs) |-> <<xs[i]>>]
Length(arr) == Cardinality({c \in DOMAIN arr : c >= 1})
\* the elements 0..length-1 as numbers, <<>> where undefined
Unboxed(arr) == [c \in 1..Length(arr) |-> IF arr[c] = <<>> THEN <<>> ELSE arr[c][1]]

\* arr[i] as JavaScript reads it: <<v>>, or <<>> for undefined
Get(arr, i) == IF (i + 1) \in DOMAIN arr THEN arr[i + 1] ELSE <<>>
JsLt(a, b) == a # <<>> /\ b # <<>> /\ a[1] < b[1]

CeilDiv(a, b) == (a + b - 1) \div b

\* quantileSorted with the odd-length case off by one
quantileSorted_OddOffByOne(xs, p) ==
    LET n == Len(xs)
        whole == (n * p[1]) % p[2] = 0
        idx == (n * p[1]) \div p[2]
    IN  IF n = 0 THEN Thrown("quantile requires at least one data point.")
        ELSE IF p[1] < 0 \/ p[1] > p[2] THEN Thrown("quantiles must be between 0 and 1")
        ELSE IF p[1] = p[2] THEN Returned(<<At(xs, n - 1), 1>>)
        ELSE IF p[1] = 0 THEN Returned(<<At(xs, 0), 1>>)
        ELSE IF ~whole THEN Returned(<<At(xs, CeilDiv(n * p[1], p[2]) - 1), 1>>)
        ELSE IF n % 2 = 0 THEN Returned(<<At(xs, idx - 1) + At(xs, idx), 2>>)
        ELSE Returned(<<At(xs, idx - 1), 1>>)

\* quantileSorted taking every p of 1 or more as 1
quantileSorted_AboveOneIsLast(xs, p) ==
    LET n == Len(xs)
        whole == (n * p[1]) % p[2] = 0
        idx == (n * p[1]) \div p[2]
    IN  IF n = 0 THEN Thrown("quantile requires at least one data point.")
        ELSE IF p[1] < 0 THEN Thrown("quantiles must be between 0 and 1")
        ELSE IF p[1] >= p[2] THEN Returned(<<At(xs, n - 1), 1>>)
        ELSE IF p[1] = 0 THEN Returned(<<At(xs, 0), 1>>)
        ELSE IF ~whole THEN Returned(<<At(xs, CeilDiv(n * p[1], p[2]) - 1), 1>>)
        ELSE IF n % 2 = 0 THEN Returned(<<At(xs, idx - 1) + At(xs, idx), 2>>)
        ELSE Returned(<<At(xs, idx), 1>>)

quantileSorted(xs, p) ==
    LET n == Len(xs)
        whole == (n * p[1]) % p[2] = 0      \* idx % 1 === 0
        idx == (n * p[1]) \div p[2]          \* idx, when it is an integer
    IN  IF n = 0 THEN Thrown("quantile requires at least one data point.")
        ELSE IF p[1] < 0 \/ p[1] > p[2] THEN Thrown("quantiles must be between 0 and 1")
        ELSE IF p[1] = p[2] THEN Returned(<<At(xs, n - 1), 1>>)
        ELSE IF p[1] = 0 THEN Returned(<<At(xs, 0), 1>>)
        ELSE IF ~whole THEN Returned(<<At(xs, CeilDiv(n * p[1], p[2]) - 1), 1>>)
        ELSE IF n % 2 = 0 THEN Returned(<<At(xs, idx - 1) + At(xs, idx), 2>>)
        ELSE Returned(<<At(xs, idx), 1>>)

\* tmp = arr[i]; arr[i] = arr[j]; arr[j] = tmp: a write past the end
\* lengthens the array
\* (in swap, PartitionLoop and SelectLoop the intermediate arrays are bound
\* as members of one-element sets, so that each is computed once)
swap(arr, i, j) ==
    CHOOSE swapped \in
        {[c \in DOMAIN a \cup {i + 1, j + 1} \cup 1..(IF i > j THEN i + 1 ELSE j + 1) |->
             IF c = j + 1 THEN Get(a, i)
             ELSE IF c = i + 1 THEN Get(a, j)
             ELSE Get(a, c - 1)] : a \in {arr}} : TRUE

\* above this range width quickselect first narrows the range by sampling
FloydRivestWidth == 600

RECURSIVE ScanUp(_, _, _)
ScanUp(arr, i, t) == IF JsLt(Get(arr, i), t) THEN ScanUp(arr, i + 1, t) ELSE i

RECURSIVE ScanDown(_, _, _)
ScanDown(arr, j, t) == IF JsLt(t, Get(arr, j)) THEN ScanDown(arr, j - 1, t) ELSE j

\* while (i < j) { swap; i++; j--; while (arr[i] < t) i++; while (arr[j] > t) j--; }
RECURSIVE PartitionLoop(_, _, _, _)
PartitionLoop(arr, i, j, t) ==
    IF i < j
    THEN CHOOSE part \in
             UNION {{PartitionLoop(swapped, up, down, t) :
                         up \in {ScanUp(swapped, i + 1, t)},
                         down \in {ScanDown(swapped, j - 1, t)}} :
                    swapped \in {swap(arr, i, j)}} : TRUE
    ELSE [arr |-> arr, j |-> j]

\* the body of quickselect's while (right > left) loop; samples of the
\* model are shorter than FloydRivestWidth, so the sampling step is skipped
RECURSIVE SelectLoop(_, _, _, _)
SelectLoop(arr, k, left, right) ==
    IF right > left /\ right - left <= FloydRivestWidth
    THEN LET t == Get(arr, k)
             Partitioned(a1) ==
                 {PartitionLoop(a2, left, right, t) :
                      a2 \in {IF JsLt(t, Get(a1, right)) THEN swap(a1, left, right) ELSE a1}}
             Placed(part) ==
                 {IF Get(part.arr, left) = t
                  THEN [arr |-> swap(part.arr, left, part.j), j |-> part.j]
                  ELSE [arr |-> swap(part.arr, part.j + 1, right), j |-> part.j + 1]}
         IN  CHOOSE selected \in
                 {SelectLoop(fin.arr, k,
                             IF fin.j <= k THEN fin.j + 1 ELSE left,
                             IF k <= fin.j THEN fin.j - 1 ELSE right) :
                      fin \in UNION {Placed(part) :
                                         part \in UNION {Partitioned(a1) :
                                                             a1 \in {swap(arr, left, k)}}}} : TRUE
    ELSE arr

\* left = left || 0; right = right || arr.length - 1
quickselect(arr, k, left, right) ==
    SelectLoop(arr, k, left, IF right = 0 THEN Length(arr) - 1 ELSE right)

quantileSelect(arr, k2, left, right) ==
    IF k2 % 2 = 0
    THEN quickselect(arr, k2 \div 2, left, right)
    ELSE LET k == (k2 - 1) \div 2
         IN  CHOOSE selected \in
                 {quickselect(lower, k + 1, k + 1, right) :
                      lower \in {quickselect(arr, k, left, right)}} : TRUE

\* twice the index quantileIndex returns
quantileIndex(len, p) ==
    LET whole == (len * p[1]) % p[2] = 0
        idx == (len * p[1]) \div p[2]
    IN  IF p[1] = p[2] THEN 2 * (len - 1)
        ELSE IF p[1] = 0 THEN 0
        ELSE IF ~whole THEN 2 * (CeilDiv(len * p[1], p[2]) - 1)
        ELSE IF len % 2 = 0 THEN 2 * idx - 1
        ELSE 2 * idx

\* the while (stack.length) loop of multiQuantileSelect; stack holds pairs
\* pushed as l, m, m, r and popped r first
RECURSIVE MultiSelectLoop(_, _, _)
MultiSelectLoop(arr, indices, stack) ==
    IF stack = <<>> THEN arr
    ELSE LET r == stack[Len(stack)]
             l == stack[Len(stack) - 1]
             rest == SubSeq(stack, 1, Len(stack) - 2)
             m == (l + r) \div 2
         IN  IF r - l <= 1 THEN MultiSelectLoop(arr, indices, rest)
             ELSE MultiSelectLoop(
                      quantileSelect(arr, At(indices, m),
                                     At(indices, l) \div 2,
                                     (At(indices, r) + 1) \div 2),
                      indices, rest \o <<l, m, m, r>>)

multiQuantileSelect(arr, ps) ==
    LET indices == numericSort(<<0>> \o [i \in 1..Len(ps) |-> quantileIndex(Length(arr), ps[i])]
                                \o <<2 * (Length(arr) - 1)>>)
    IN  MultiSelectLoop(arr, indices, <<0, Len(indices) - 1>>)

\* copy after quantileSelect(copy, idx, 0, copy.length - 1), copy = x.slice()
QuantileCopy(xs, p) ==
    quantileSelect(Boxed(xs), quantileIndex(Len(xs), p), 0, Len(xs) - 1)

\* quantile(x, p) for a single fraction p
\* (the copy is bound as the member of a one-element set, so that it is
\* computed once)
quantile(xs, p) ==
    CHOOSE result \in {quantileSorted(copy, p) : copy \in {Unboxed(QuantileCopy(xs, p))}} : TRUE

\* quantile(x, p) for an array p: the results, in the order of p
quantileMulti(xs, ps) ==
    LET copy == Unboxed(multiQuantileSelect(Boxed(xs), ps))
        results == [i \in 1..Len(ps) |-> quantileSorted(copy, ps[i])]
    IN  IF \E i \in 1..Len(ps) : results[i].kind = "throw"
        THEN results[CHOOSE i \in 1..Len(ps) :
                         /\ results[i].kind = "throw"
                         /\ \A h \in 1..(i - 1) : results[h].kind = "return"]
        ELSE Returned([i \in 1..Len(ps) |-> results[i].value])

median(xs) == quantile(xs, <<1, 2>>)

(***************************************************************************)
(* The quantile functions applied to drawn samples and fractions.          *)
(***************************************************************************)
NotCalled == [kind |-> "none"]
NoFrame == [pc |-> "none"]

Fractions == {f \in (0..MaxDen) \X (1..MaxDen) : f[1] <= f[2] /\ Gcd(f[1], f[2]) = 1}
FractionArrays == SeqsUpTo(Fractions, MaxPs) \ {<<>>}

\* the samples of the documented examples of median and quantile
MedianExample == <<10, 2, 5, 100, 2, 1>>
QuantileExample == <<3, 6, 7, 8, 8, 9, 10, 13, 15, 16, 20>>

\* quantileSorted on a sorted sample
InitQuantileSorted ==
    /\ fn = ""
    /\ ret = NotCalled
    /\ frame = NoFrame
    /\ x \in {xs \in Samples \ {<<>>} : IsSorted(xs)}
    /\ arg \in [kind : {"number"}, p : Fractions]

CallQuantileSorted ==
    /\ fn = ""
    /\ fn' = "quantileSorted"
    /\ ret' = quantileSorted(x, arg.p)
    /\ UNCHANGED <<x, arg, frame>>

SpecQuantileSorted == InitQuantileSorted /\ [][CallQuantileSorted]_vars

\* quantile on any sample, with one fraction or an array of fractions
InitQuantile ==
    /\ fn = ""
    /\ ret = NotCalled
    /\ frame = NoFrame
    /\ \/ /\ x \in Samples \ {<<>>}
          /\ arg \in [kind : {"number"}, p : Fractions] \cup [kind : {"array"}, p : FractionArrays]
       \/ /\ x \in {MedianExample, QuantileExample}
          /\ arg \in {[kind |-> "number", p |-> <<1, 2>>], [kind |-> "array", p |-> <<<<1, 2>>>>]}

\* quantile works on copy = x.slice(), so x is left as it was
CallQuantile ==
    /\ fn = ""
    /\ fn' = "quantile"
    /\ ret' = IF arg.kind = "array" THEN quantileMulti(x, arg.p) ELSE quantile(x, arg.p)
    /\ UNCHANGED <<x, arg, frame>>

SpecQuantile == InitQuantile /\ [][CallQuantile]_vars

(***************************************************************************)
(* C1.  quantileSorted on a non-empty sorted sample of length n.  The      *)
(* r-th smallest element of a sorted sample is x[r] (ranks start at 1).    *)
(***************************************************************************)
NTimesP == Len(x) * arg.p[1]                    \* n * p, times the denominator of p
NPWhole == NTimesP % arg.p[2] = 0
NPRank == NTimesP \div arg.p[2]                 \* n * p when it is an integer
QuantileCalled == fn = "quantileSorted" /\ ret.kind = "return"
PInterior == 0 < arg.p[1] /\ arg.p[1] < arg.p[2]

\* the cases of C1 other than the odd-length one
C1_CommonCases ==
    /\ arg.p[1] = 0 => ret.value = <<x[1], 1>>
    /\ arg.p[1] = arg.p[2] => ret.value = <<x[Len(x)], 1>>
    /\ PInterior /\ ~NPWhole => ret.value = <<x[CeilDiv(NTimesP, arg.p[2])], 1>>
    /\ PInterior /\ NPWhole /\ Len(x) % 2 = 0
           => ret.value = <<x[NPRank] + x[NPRank + 1], 2>>

\* C1 as stated, reading "the element at that index" as the claim reads
\* "the element at the ceiling index": the (n*p)-th smallest element.
C1_AsStated ==
    fn = "quantileSorted" =>
        /\ ret.kind = "return"
        /\ C1_CommonCases
        /\ PInterior /\ NPWhole /\ Len(x) % 2 = 1 => ret.value = <<x[NPRank], 1>>

\* C1 amended: for every non-empty sorted x and p in [0,1], quantileSorted
\* returns x[0] when p = 0; x[n-1] when p = 1; the ceil(n*p)-th smallest
\* element when n*p is not an integer; the average of the (n*p)-th and
\* (n*p+1)-th smallest when n*p is an integer and n is even; and the
\* (n*p+1)-th smallest element (x[n*p], zero-based) when n*p is an integer
\* and n is odd.
C1_QuantileSortedCases ==
    fn = "quantileSorted" =>
        /\ ret.kind = "return"
        /\ C1_CommonCases
        /\ PInterior /\ NPWhole /\ Len(x) % 2 = 1 => ret.value = <<x[NPRank + 1], 1>>

\* an odd-length sample with distinct neighbours at an integer n*p
C1_Witness ==
    /\ QuantileCalled
    /\ PInterior /\ NPWhole /\ Len(x) % 2 = 1
    /\ x[NPRank] # x[NPRank + 1]

(***************************************************************************)
(* C2.  quantile(x, p) on any non-empty sample equals                      *)
(* quantileSorted(numericSort(x), p) for a single fraction p, and for an   *)
(* array p its i-th entry equals quantileSorted(numericSort(x), p[i]); in  *)
(* particular median([10,2,5,100,2,1]) = 3.5 and                           *)
(* quantile([3,6,7,8,8,9,10,13,15,16,20], 0.5) = 9.                        *)
(***************************************************************************)
C2_QuantileMatchesSorted ==
    fn = "quantile" =>
        /\ arg.kind = "number" => ret = quantileSorted(numericSort(x), arg.p)
        /\ arg.kind = "array" =>
               /\ ret.kind = "return"
               /\ Len(ret.value) = Len(arg.p)
               /\ \A i \in 1..Len(arg.p) :
                      Returned(ret.value[i]) = quantileSorted(numericSort(x), arg.p[i])
        /\ x = MedianExample /\ arg.kind = "number" =>
               ret.value = <<7, 2>> /\ median(x) = ret
        /\ x = QuantileExample /\ arg.kind = "number" => ret.value = <<9, 1>>

(***************************************************************************)
(* Moments: mean, variance, sampleVariance, sampleSkewness and             *)
(* sampleKurtosis.  With the mean S/n of a sample of n integers, the       *)
(* deviation of x[i] is (n*x[i] - S)/n, so the sum of k-th powers of the   *)
(* deviations is PowerSum(k)/n^k.  A number is <<num, den>>; the quotient  *)
(* 0/0 (JavaScript's NaN) is <<0, 0>>.                                     *)
(***************************************************************************)
RECURSIVE Power(_, _)
Power(b, e) == IF e = 0 THEN 1 ELSE b * Power(b, e - 1)

IsNaN(v) == v[2] = 0
Quotient(num, den) == IF den = 0 THEN <<0, 0>> ELSE <<num, den>>

\* the samples of the model hold integers, whose sum is exact
sum(xs) == SumSeq(xs)

mean(xs) ==
    IF Len(xs) = 0 THEN Thrown("mean requires at least one data point")
    ELSE Returned(<<sum(xs), Len(xs)>>)

\* the sum over i of (n*x[i] - S)^k
PowerSum(xs, k) == SumSeq([i \in 1..Len(xs) |-> Power(Len(xs) * xs[i] - sum(xs), k)])

sumNthPowerDeviations(xs, k) ==
    IF mean(xs).kind = "throw" THEN mean(xs)
    ELSE Returned(<<PowerSum(xs, k), Power(Len(xs), k)>>)

variance(xs) ==
    IF Len(xs) = 0 THEN Thrown("variance requires at least one data point")
    ELSE LET dev == sumNthPowerDeviations(xs, 2)
         IN  IF dev.kind = "throw" THEN dev
             ELSE Returned(Quotient(dev.value[1], dev.value[2] * Len(xs)))

\* sampleVariance with the size check accepting a single data point
sampleVariance_CheckOffByOne(xs) ==
    IF Len(xs) < 1 THEN Thrown("sampleVariance requires at least two data points")
    ELSE LET dev == sumNthPowerDeviations(xs, 2)
         IN  IF dev.kind = "throw" THEN dev
             ELSE Returned(Quotient(dev.value[1], dev.value[2] * (Len(xs) - 1)))

sampleVariance(xs) ==
    IF Len(xs) < 2 THEN Thrown("sampleVariance requires at least two data points")
    ELSE LET dev == sumNthPowerDeviations(xs, 2)
         IN  IF dev.kind = "throw" THEN dev
             ELSE Returned(Quotient(dev.value[1], dev.value[2] * (Len(xs) - 1)))

Sign(n) == IF n > 0 THEN 1 ELSE IF n < 0 THEN -1 ELSE 0

\* n * sumCubedDeviations / ((n-1) * (n-2) * cubedS) with
\* cubedS = sqrt(sumSquaredDeviations / (n-1))^3: NaN when every deviation
\* is 0, and otherwise the number of this sign whose square is
\* n^2 * sumCubed^2 * (n-1) / ((n-2)^2 * sumSquared^3), kept as its factors
sampleSkewness(xs) ==
    LET n == Len(xs)
    IN  IF n < 3 THEN Thrown("sampleSkewness requires at least three data points")
        ELSE IF mean(xs).kind = "throw" THEN mean(xs)
        ELSE IF PowerSum(xs, 2) = 0 THEN Returned(<<0, 0>>)
        ELSE Returned(<<Sign(PowerSum(xs, 3)),
                        [n |-> n,
                         sumCubedDeviations |-> <<PowerSum(xs, 3), Power(n, 3)>>,
                         sumSquaredDeviations |-> <<PowerSum(xs, 2), Power(n, 2)>>]>>)

\* ((n-1) / ((n-2)*(n-3))) * (n*(n+1)*fourth / (second*second) - 3*(n-1))
sampleKurtosis(xs) ==
    LET n == Len(xs)
        second == PowerSum(xs, 2)      \* times n^2
        fourth == PowerSum(xs, 4)      \* times n^4
    IN  IF n < 4 THEN Thrown("sampleKurtosis requires at least four data points")
        ELSE IF mean(xs).kind = "throw" THEN mean(xs)
        ELSE Returned(Quotient((n - 1) * (n * (n + 1) * fourth - 3 * (n - 1) * second * second),
                               (n - 2) * (n - 3) * second * second))

InitMoments ==
    /\ fn = ""
    /\ ret = NotCalled
    /\ frame = NoFrame
    /\ x \in Samples
    /\ arg = <<>>

Call(name, result) ==
    /\ fn = ""
    /\ fn' = name
    /\ ret' = result
    /\ UNCHANGED <<x, arg, frame>>

CallMean == Call("mean", mean(x))
CallVariance == Call("variance", variance(x))
CallSampleVariance == Call("sampleVariance", sampleVariance(x))
CallSampleSkewness == Call("sampleSkewness", sampleSkewness(x))
CallSampleKurtosis == Call("sampleKurtosis", sampleKurtosis(x))

NextMoments ==
    \/ CallMean
    \/ CallVariance
    \/ CallSampleVariance
    \/ CallSampleSkewness
    \/ CallSampleKurtosis

SpecMoments == InitMoments /\ [][NextMoments]_vars

(***************************************************************************)
(* C3.  mean, variance, sampleVariance, sampleSkewness and sampleKurtosis  *)
(* each throw their own error, different from the others', whenever the    *)
(* sample has fewer than 1, 1, 2, 3 and 4 data points respectively; a      *)
(* too-short sample never yields NaN or any other return value.            *)
(***************************************************************************)
MomentFunctions == {"mean", "variance", "sampleVariance", "sampleSkewness", "sampleKurtosis"}

RequiredPoints(name) ==
    CASE name = "mean" -> 1
      [] name = "variance" -> 1
      [] name = "sampleVariance" -> 2
      [] name = "sampleSkewness" -> 3
      [] name = "sampleKurtosis" -> 4

\* the error each function announces in its documentation
OwnError(name) ==
    CASE name = "mean" -> "mean requires at least one data point"
      [] name = "variance" -> "variance requires at least one data point"
      [] name = "sampleVariance" -> "sampleVariance requires at least two data points"
      [] name = "sampleSkewness" -> "sampleSkewness requires at least three data points"
      [] name = "sampleKurtosis" -> "sampleKurtosis requires at least four data points"

C3_TooShortThrowsOwnError ==
    fn \in MomentFunctions /\ Len(x) < RequiredPoints(fn) =>
        /\ ret = Thrown(OwnError(fn))
        /\ \A other \in MomentFunctions \ {fn} : ret.message # OwnError(other)

\* sampleVariance called with a single data point
C3_Witness ==
    /\ fn = "sampleVariance"
    /\ Len(x) = 1
    /\ ret.kind = "throw"

(***************************************************************************)
(* Ckmeans.  Sums of squares are exact fractions kept in lowest terms; the *)
(* matrices are sequences of columns, matrix[cluster][i] is                *)
(* At(At(matrix, cluster), i).                                             *)
(***************************************************************************)
RatNorm(a) ==
    CHOOSE r \in {<<v[1] \div Gcd(Abs(v[1]), v[2]), v[2] \div Gcd(Abs(v[1]), v[2])>> :
                     v \in {a}} : TRUE
RatAdd(a, b) ==
    CHOOSE r \in {RatNorm(<<v[1] * w[2] + w[1] * v[2], v[2] * w[2]>>) : v \in {a}, w \in {b}} : TRUE

makeMatrix(columns, rows, zero) == [c \in 1..columns |-> [r \in 1..rows |-> zero]]
SetCell(matrix, c, i, v) == [matrix EXCEPT ![c + 1][i + 1] = v]
Cell(matrix, c, i) == At(At(matrix, c), i)

RECURSIVE uniqueCountSorted(_)
uniqueCountSorted(xs) ==
    IF Len(xs) = 0 THEN 0
    ELSE IF Len(xs) = 1 THEN 1
    ELSE uniqueCountSorted(SubSeq(xs, 1, Len(xs) - 1))
         + (IF xs[Len(xs)] # xs[Len(xs) - 1] THEN 1 ELSE 0)

\* ssq with the first branch forgetting to subtract the prefix sum
ssq_PrefixForgotten(j, i, sums, sumsOfSquares) ==
    LET sji == IF j > 0
               THEN RatNorm(<<(At(sumsOfSquares, i) - At(sumsOfSquares, j - 1)) * (i - j + 1)
                                  - At(sums, i) * At(sums, i),
                              i - j + 1>>)
               ELSE RatNorm(<<At(sumsOfSquares, i) * (i + 1) - At(sums, i) * At(sums, i), i + 1>>)
    IN  IF sji[1] < 0 THEN <<0, 1>> ELSE sji

\* with S = sums[i] - sums[j-1], Q = sumsOfSquares[i] - sumsOfSquares[j-1]
\* and m = i - j + 1:  Q - m * (S/m)^2 = (Q*m - S*S) / m
ssq(j, i, sums, sumsOfSquares) ==
    LET sji == IF j > 0
               THEN LET S == At(sums, i) - At(sums, j - 1)
                        Q == At(sumsOfSquares, i) - At(sumsOfSquares, j - 1)
                    IN  RatNorm(<<Q * (i - j + 1) - S * S, i - j + 1>>)
               ELSE RatNorm(<<At(sumsOfSquares, i) * (i + 1) - At(sums, i) * At(sums, i), i + 1>>)
    IN  IF sji[1] < 0 THEN <<0, 1>> ELSE sji

Max(a, b) == IF a > b THEN a ELSE b
Min(a, b) == IF a < b THEN a ELSE b

\* the for (j = jhigh; j >= jlow; --j) loop of fillMatrixColumn; cur is
\* [value |-> matrix[cluster][i], back |-> backtrackMatrix[cluster][i]]
RECURSIVE ColumnLoop(_, _, _, _, _, _, _, _)
ColumnLoop(j, jlow, cur, i, cluster, matrix, sums, sumsOfSquares) ==
    IF j < jlow THEN cur
    ELSE LET sji == ssq(j, i, sums, sumsOfSquares)
         IN  IF ~RatLt(RatAdd(sji, Cell(matrix, cluster - 1, jlow - 1)), cur.value)
             THEN cur
             ELSE LET ssqjlow == RatAdd(ssq(jlow, i, sums, sumsOfSquares),
                                        Cell(matrix, cluster - 1, jlow - 1))
                      cur1 == IF RatLt(ssqjlow, cur.value)
                              THEN [value |-> ssqjlow, back |-> jlow] ELSE cur
                      ssqj == RatAdd(sji, Cell(matrix, cluster - 1, j - 1))
                      cur2 == IF RatLt(ssqj, cur1.value)
                              THEN [value |-> ssqj, back |-> j] ELSE cur1
                 IN  ColumnLoop(j - 1, jlow + 1, cur2, i, cluster, matrix, sums, sumsOfSquares)

\* mats is [matrix |-> ..., backtrackMatrix |-> ...]
RECURSIVE fillMatrixColumn(_, _, _, _, _, _)
fillMatrixColumn(iMin, iMax, cluster, mats, sums, sumsOfSquares) ==
    IF iMin > iMax THEN mats
    ELSE LET i == (iMin + iMax) \div 2
             back == mats.backtrackMatrix
             jlow0 == IF iMin > cluster THEN Max(cluster, Cell(back, cluster, iMin - 1))
                      ELSE cluster
             jlow == Max(jlow0, Cell(back, cluster - 1, i))
             jhigh == IF iMax < Len(At(mats.matrix, 0)) - 1
                      THEN Min(i - 1, Cell(back, cluster, iMax + 1))
                      ELSE i - 1
             best == ColumnLoop(jhigh, jlow,
                                [value |-> Cell(mats.matrix, cluster - 1, i - 1), back |-> i],
                                i, cluster, mats.matrix, sums, sumsOfSquares)
             filled == [matrix |-> SetCell(mats.matrix, cluster, i, best.value),
                        backtrackMatrix |-> SetCell(back, cluster, i, best.back)]
         IN  fillMatrixColumn(i + 1, iMax, cluster,
                 fillMatrixColumn(iMin, i - 1, cluster, filled, sums, sumsOfSquares),
                 sums, sumsOfSquares)

\* the for (cluster = 1; ...) loop of fillMatrices
RECURSIVE FillColumns(_, _, _, _)
FillColumns(cluster, mats, sums, sumsOfSquares) ==
    LET nValues == Len(At(mats.matrix, 0))
        iMin == IF cluster < Len(mats.matrix) - 1 THEN cluster ELSE nValues - 1
    IN  IF cluster >= Len(mats.matrix) THEN mats
        ELSE FillColumns(cluster + 1,
                 fillMatrixColumn(iMin, nValues - 1, cluster, mats, sums, sumsOfSquares),
                 sums, sumsOfSquares)

fillMatrices(data, mats) ==
    LET nValues == Len(At(mats.matrix, 0))
        shift == At(data, nValues \div 2)
        sums == [n \in 1..nValues |-> SumSeq([h \in 1..n |-> data[h] - shift])]
        sumsOfSquares ==
            [n \in 1..nValues |-> SumSeq([h \in 1..n |-> (data[h] - shift) * (data[h] - shift)])]
        first == [matrix |-> [mats.matrix EXCEPT
                                  ![1] = [n \in 1..nValues |-> ssq(0, n - 1, sums, sumsOfSquares)]],
                  backtrackMatrix |-> [mats.backtrackMatrix EXCEPT
                                           ![1] = [n \in 1..nValues |-> 0]]]
    IN  FillColumns(1, first, sums, sumsOfSquares)

\* ckmeans' backtracking with the next cluster starting on the same cell
RECURSIVE Backtrack_SharedCell(_, _, _, _)
Backtrack_SharedCell(cluster, clusterRight, backtrackMatrix, sorted) ==
    IF cluster < 0 THEN <<>>
    ELSE LET clusterLeft == Cell(backtrackMatrix, cluster, clusterRight)
         IN  Append(Backtrack_SharedCell(cluster - 1,
                              IF cluster > 0 THEN clusterLeft ELSE clusterRight,
                              backtrackMatrix, sorted),
                    Slice(sorted, clusterLeft, clusterRight + 1))

\* the for (cluster = backtrackMatrix.length - 1; cluster >= 0; cluster--)
\* loop of ckmeans: clusters[0..cluster]
RECURSIVE Backtrack(_, _, _, _)
Backtrack(cluster, clusterRight, backtrackMatrix, sorted) ==
    IF cluster < 0 THEN <<>>
    ELSE LET clusterLeft == Cell(backtrackMatrix, cluster, clusterRight)
         IN  Append(Backtrack(cluster - 1,
                              IF cluster > 0 THEN clusterLeft - 1 ELSE clusterRight,
                              backtrackMatrix, sorted),
                    Slice(sorted, clusterLeft, clusterRight + 1))

\* ckmeans without the case of identical values
ckmeans_NoDegenerateCase(xs, nClusters) ==
    LET sorted == numericSort(xs)
        mats == fillMatrices(sorted,
                    [matrix |-> makeMatrix(nClusters, Len(sorted), <<0, 1>>),
                     backtrackMatrix |-> makeMatrix(nClusters, Len(sorted), 0)])
    IN  IF nClusters > Len(xs)
        THEN Thrown("cannot generate more classes than there are data values")
        ELSE IF nClusters < 1 THEN Thrown("TypeError")     \* matrix[0] is undefined
        ELSE Returned(Backtrack(Len(mats.backtrackMatrix) - 1,
                                Len(At(mats.backtrackMatrix, 0)) - 1,
                                mats.backtrackMatrix, sorted))

ckmeans(xs, nClusters) ==
    LET sorted == numericSort(xs)
        mats == fillMatrices(sorted,
                    [matrix |-> makeMatrix(nClusters, Len(sorted), <<0, 1>>),
                     backtrackMatrix |-> makeMatrix(nClusters, Len(sorted), 0)])
    IN  IF nClusters > Len(xs)
        THEN Thrown("cannot generate more classes than there are data values")
        ELSE IF uniqueCountSorted(sorted) = 1 THEN Returned(<<sorted>>)
        ELSE IF nClusters < 1 THEN Thrown("TypeError")     \* matrix[0] is undefined
        ELSE Returned(Backtrack(Len(mats.backtrackMatrix) - 1,
                                Len(At(mats.backtrackMatrix, 0)) - 1,
                                mats.backtrackMatrix, sorted))

\* the sample of the documented example of ckmeans
CkmeansExample == <<-1, 2, -1, 2, 4, 5, 6, -1, 2, -1>>

\* ckmeans(x, nClusters) with 1 <= nClusters
InitCkmeans ==
    /\ fn = ""
    /\ ret = NotCalled
    /\ frame = NoFrame
    /\ \/ x \in Samples \ {<<>>} /\ arg \in 1..(MaxLen + 1)
       \/ x = CkmeansExample /\ arg \in 1..Len(CkmeansExample)

CallCkmeans ==
    /\ fn = ""
    /\ fn' = "ckmeans"
    /\ ret' = ckmeans(x, arg)
    /\ UNCHANGED <<x, arg, frame>>

SpecCkmeans == InitCkmeans /\ [][CallCkmeans]_vars

(***************************************************************************)
(* C4.  For every x with at least two distinct values and every nClusters  *)
(* with 1 <= nClusters <= x.length, ckmeans returns exactly nClusters      *)
(* groups, every group is non-empty, and the groups concatenated in order  *)
(* are the numerically sorted input.                                       *)
(***************************************************************************)
RECURSIVE Flatten(_)
Flatten(groups) == IF groups = <<>> THEN <<>> ELSE groups[1] \o Flatten(Tail(groups))

DistinctValues(xs) == Cardinality({xs[i] : i \in 1..Len(xs)})

CkmeansCase == fn = "ckmeans" /\ DistinctValues(x) >= 2 /\ 1 <= arg /\ arg <= Len(x)

C4_CkmeansPartitionsSortedInput ==
    CkmeansCase =>
        /\ ret.kind = "return"
        /\ Len(ret.value) = arg
        /\ \A g \in 1..Len(ret.value) : ret.value[g] # <<>>
        /\ Flatten(ret.value) = numericSort(x)

\* more clusters asked for than there are distinct values, on unsorted input
C4_Witness ==
    /\ CkmeansCase
    /\ ~IsSorted(x)
    /\ arg > DistinctValues(x)
    /\ Len(ret.value) = arg

(***************************************************************************)
(* C5.  No partition of the sorted input into nClusters non-empty          *)
(* contiguous groups has a strictly smaller within-group sum of squared    *)
(* deviations from the group means than the partition ckmeans returns.     *)
(***************************************************************************)
\* sum of squared deviations of a non-empty group from its mean
GroupSS(group) ==
    <<SumSeq([i \in 1..Len(group) |-> group[i] * group[i]]) * Len(group)
          - SumSeq(group) * SumSeq(group),
      Len(group)>>

RECURSIVE WithinSS(_)
WithinSS(groups) ==
    IF groups = <<>> THEN <<0, 1>> ELSE RatAdd(GroupSS(groups[1]), WithinSS(Tail(groups)))

\* the partition of sorted that ends its groups at the positions of ends
RECURSIVE CutAt(_, _, _)
CutAt(sorted, ends, from) ==
    IF from > Len(sorted) THEN <<>>
    ELSE LET to == CHOOSE e \in ends : e >= from /\ \A f \in ends : f >= from => e <= f
         IN  <<SubSeq(sorted, from, to)>> \o CutAt(sorted, ends, to + 1)

ContiguousPartitions(sorted, k) ==
    {CutAt(sorted, cuts \cup {Len(sorted)}, 1) :
        cuts \in {c \in SUBSET (1..(Len(sorted) - 1)) : Cardinality(c) = k - 1}}

C5_CkmeansMinimisesWithinSS ==
    CkmeansCase =>
        /\ ret.kind = "return"
        /\ ret.value \in ContiguousPartitions(numericSort(x), arg)
        /\ \A other \in ContiguousPartitions(numericSort(x), arg) :
               RatLe(WithinSS(ret.value), WithinSS(other))

\* a case where some contiguous partitions are strictly worse and the
\* best one leaves no group with zero spread
C5_Witness ==
    /\ CkmeansCase
    /\ arg >= 2
    /\ \E other \in ContiguousPartitions(numericSort(x), arg) :
           RatLt(WithinSS(ret.value), WithinSS(other))
    /\ RatLt(<<0, 1>>, WithinSS(ret.value))

(***************************************************************************)
(* wilcoxonRankSum.  A pooled observation is [label, value]; its rank may  *)
(* be a half-integer and is carried doubled (rank2 = 2 * rank).            *)
(***************************************************************************)
\* .sort(function (a, b) { return a.value - b.value; }), which is stable
RECURSIVE InsertByValue(_, _)
InsertByValue(sorted, item) ==
    IF sorted = <<>> THEN <<item>>
    ELSE IF item.value < sorted[Len(sorted)].value
         THEN Append(InsertByValue(SubSeq(sorted, 1, Len(sorted) - 1), item), sorted[Len(sorted)])
         ELSE Append(sorted, item)

RECURSIVE SortByValue(_)
SortByValue(items) ==
    IF items = <<>> THEN <<>>
    ELSE InsertByValue(SortByValue(SubSeq(items, 1, Len(items) - 1)), items[Len(items)])

pooledSamples(sampleX, sampleY) ==
    SortByValue([i \in 1..Len(sampleX) |-> [label |-> "x", value |-> sampleX[i]]]
                \o [i \in 1..Len(sampleY) |-> [label |-> "y", value |-> sampleY[i]]])

\* every pooledSamples[tiedRanks[i]].rank becomes the mean of the first
\* and last entry of tiedRanks
replaceRanksInPlace(rank2, tiedRanks) ==
    LET average2 == (tiedRanks[1] + tiedRanks[Len(tiedRanks)]) \div 2
    IN  [n \in 1..Len(rank2) |->
            IF \E h \in 1..Len(tiedRanks) : tiedRanks[h] \div 2 = n - 1
            THEN average2 ELSE rank2[n]]

\* the for (i = 1; i < pooledSamples.length; i++) loop over ties;
\* tiedRanks holds doubled ranks
RECURSIVE TieLoop(_, _, _, _)
TieLoop(i, pooled, rank2, tiedRanks) ==
    IF i >= Len(pooled) THEN rank2
    ELSE IF At(pooled, i).value = At(pooled, i - 1).value
         THEN LET pushed == Append(tiedRanks, At(rank2, i))
              IN  TieLoop(i + 1, pooled,
                          IF i = Len(pooled) - 1 THEN replaceRanksInPlace(rank2, pushed) ELSE rank2,
                          pushed)
         ELSE IF Len(tiedRanks) > 1
              THEN TieLoop(i + 1, pooled, replaceRanksInPlace(rank2, tiedRanks), tiedRanks)
              ELSE TieLoop(i + 1, pooled, rank2, <<At(rank2, i)>>)

\* the doubled ranks (zero-based) the pooled observations end with
PooledRanks(sampleX, sampleY) ==
    LET pooled == pooledSamples(sampleX, sampleY)
        rank2 == [n \in 1..Len(pooled) |-> 2 * (n - 1)]
    IN  TieLoop(1, pooled, rank2, <<At(rank2, 0)>>)

wilcoxonRankSum(sampleX, sampleY) ==
    IF Len(sampleX) = 0 \/ Len(sampleY) = 0 THEN Thrown("Neither sample can be empty")
    ELSE LET pooled == pooledSamples(sampleX, sampleY)
             rank2 == PooledRanks(sampleX, sampleY)
         IN  Returned(<<SumSeq([n \in 1..Len(pooled) |->
                                   IF pooled[n].label = "x" THEN rank2[n] + 2 ELSE 0]),
                        2>>)

InitWilcoxon ==
    /\ fn = ""
    /\ ret = NotCalled
    /\ frame = NoFrame
    /\ x \in Samples
    /\ arg \in Samples

CallWilcoxonRankSum ==
    /\ fn = ""
    /\ fn' = "wilcoxonRankSum"
    /\ ret' = wilcoxonRankSum(x, arg)
    /\ UNCHANGED <<x, arg, frame>>

SpecWilcoxon == InitWilcoxon /\ [][CallWilcoxonRankSum]_vars

WilcoxonCase == fn = "wilcoxonRankSum" /\ x # <<>> /\ arg # <<>>
PooledLength == Len(x) + Len(arg)

(***************************************************************************)
(* C7.  For any two non-empty samples the ranks (1-indexed) assigned to    *)
(* the pooled observations sum to n(n+1)/2, n the pooled length, also      *)
(* when values are tied; equivalently wilcoxonRankSum(x, y) +              *)
(* wilcoxonRankSum(y, x) = n(n+1)/2.                                       *)
(***************************************************************************)
C7_RanksSumToTriangular ==
    WilcoxonCase =>
        /\ ret.kind = "return"
        /\ SumSeq([n \in 1..PooledLength |-> PooledRanks(x, arg)[n] + 2])
               = PooledLength * (PooledLength + 1)
        /\ RatEq(<<ret.value[1] + wilcoxonRankSum(arg, x).value[1], 2>>,
                 <<PooledLength * (PooledLength + 1), 2>>)

(***************************************************************************)
(* C8.  Every maximal run of equal values in the value-sorted pool gives   *)
(* each of its entries the mean of the 1-indexed positions the run spans   *)
(* (an entry with a unique value its own position), and the result is the  *)
(* sum of these ranks over the entries of the first sample, for any number *)
(* of tie groups.                                                          *)
(***************************************************************************)
CountIn(sample, test(_)) == Cardinality({i \in 1..Len(sample) : test(sample[i])})

\* twice the mean of the positions less+1 .. less+equal of the run of v
TieAveragedRank2(v) ==
    LET less == CountIn(x, LAMBDA w : w < v) + CountIn(arg, LAMBDA w : w < v)
        equal == CountIn(x, LAMBDA w : w = v) + CountIn(arg, LAMBDA w : w = v)
    IN  2 * less + equal + 1

C8_TieAveragedRankSum ==
    WilcoxonCase =>
        /\ ret.kind = "return"
        /\ RatEq(ret.value, <<SumSeq([i \in 1..Len(x) |-> TieAveragedRank2(x[i])]), 2>>)

(***************************************************************************)
(* shuffleInPlace, shuffle and sample.  randomSource returns a number in   *)
(* [0,1), so Math.floor(randomSource() * length) is any index below        *)
(* length; the operators give the set of arrays the draws can produce.     *)
(***************************************************************************)
\* the while (length > 0) loop of shuffleInPlace
RECURSIVE ShuffleLoop(_, _)
ShuffleLoop(arr, length) ==
    IF length > 0
    THEN UNION {ShuffleLoop(swapped, length - 1) :
                    swapped \in {[arr EXCEPT ![length] = arr[index + 1], ![index + 1] = arr[length]] :
                                    index \in 0..(length - 1)}}
    ELSE {arr}

shuffleInPlace(arr) == ShuffleLoop(arr, Len(arr))
shuffle(arr) == shuffleInPlace(arr)
sample(arr, n) == {Slice(shuffled, 0, Min(n, Len(shuffled))) : shuffled \in shuffle(arr)}

(***************************************************************************)
(* kMeansCluster.  A point is a tuple of integers and a centroid a tuple   *)
(* of fractions in lowest terms.  Distances are compared through their     *)
(* squares, and change is kept as "zero" or "positive".                    *)
(***************************************************************************)
AsCentroid(point) == [j \in 1..Len(point) |-> <<point[j], 1>>]

RatMul(a, b) ==
    CHOOSE r \in {RatNorm(<<v[1] * w[1], v[2] * w[2]>>) : v \in {a}, w \in {b}} : TRUE

\* the square of euclideanDistance(left, right)
RECURSIVE SquaredDistance(_, _)
SquaredDistance(left, right) ==
    IF left = <<>> THEN <<0, 1>>
    ELSE LET diff == RatSub(left[Len(left)], right[Len(left)])
         IN  RatAdd(RatMul(diff, diff),
                    SquaredDistance(SubSeq(left, 1, Len(left) - 1), right))

\* labelPoints' for loop over the centroids; best is [minDist, label], and
\* label = -1 stands for minDist = Number.MAX_VALUE
RECURSIVE LabelLoop(_, _, _, _)
LabelLoop(i, centroids, point, best) ==
    IF i >= Len(centroids) THEN best.label
    ELSE LET dist == SquaredDistance(AsCentroid(point), At(centroids, i))
             closer == IF best.label = -1 \/ RatLt(dist, best.minDist)
                       THEN [minDist |-> dist, label |-> i] ELSE best
         IN  CHOOSE label \in {LabelLoop(i + 1, centroids, point, next) :
                                  next \in {closer}} : TRUE

labelPoints(points, centroids) ==
    [n \in 1..Len(points) |->
        LabelLoop(0, centroids, points[n], [minDist |-> <<0, 1>>, label |-> -1])]

\* calculateCentroids leaving a centroid without points at the origin
\* instead of throwing
calculateCentroids_NoCheck(points, labels, numCluster) ==
    LET dimension == Len(At(points, 0))
        counts == [c \in 1..numCluster |-> Cardinality({n \in 1..Len(points) : labels[n] = c - 1})]
        total(c, j) == SumSeq([n \in 1..Len(points) |->
                                  IF labels[n] = c THEN points[n][j] ELSE 0])
    IN  Returned([c \in 1..numCluster |->
                     [j \in 1..dimension |->
                         IF counts[c] = 0 THEN <<0, 1>>
                         ELSE RatNorm(<<total(c - 1, j), counts[c]>>)]])

calculateCentroids(points, labels, numCluster) ==
    LET dimension == Len(At(points, 0))
        counts == [c \in 1..numCluster |-> Cardinality({n \in 1..Len(points) : labels[n] = c - 1})]
        total(c, j) == SumSeq([n \in 1..Len(points) |->
                                  IF labels[n] = c THEN points[n][j] ELSE 0])
        friendless == {c \in 1..numCluster : counts[c] = 0}
        first == CHOOSE c \in friendless : \A e \in friendless : c <= e
    IN  IF Len(points) = 0
        THEN \* points[0].length
             Thrown([centroid |-> -1, text |-> "TypeError"])
        ELSE IF dimension > 0 /\ \E n \in 1..Len(points) : labels[n] \notin 0..(numCluster - 1)
        THEN \* current[j] += point[j] with current = centroids[label] undefined
             Thrown([centroid |-> -1, text |-> "TypeError"])
        ELSE IF friendless # {}
        THEN Thrown([centroid |-> first - 1, text |-> "has no friends"])
        ELSE Returned([c \in 1..numCluster |->
                          [j \in 1..dimension |-> RatNorm(<<total(c - 1, j), counts[c]>>)]])

calculateChange_FirstOnly(left, right) ==
    IF Len(right) < Len(left) THEN "TypeError"
    ELSE IF \A i \in 1..Min(1, Len(left)) : SquaredDistance(left[i], right[i]) = <<0, 1>>
    THEN "zero" ELSE "positive"

\* the total of the distances is 0 exactly when every distance is 0;
\* reading a coordinate of a centroid that right does not have is a TypeError
calculateChange(left, right) ==
    IF Len(right) < Len(left) THEN "TypeError"
    ELSE IF \A i \in 1..Len(left) : SquaredDistance(left[i], right[i]) = <<0, 1>>
    THEN "zero" ELSE "positive"

\* Point sets on a line, and point sets on the corners of the unit square.
\* kMeansCluster treats the points alike whatever their order in the array
\* (the initial centroids are drawn in every order), so the points on a
\* line are listed in ascending order.
PointsOnLine == {[n \in 1..Len(xs) |-> <<xs[n]>>] : xs \in {s \in Samples \ {<<>>} : IsSorted(s)}}
UnitSquare == {<<0, 0>>, <<0, 1>>, <<1, 0>>, <<1, 1>>}
PointsOnSquare == {s \in SeqsUpTo(UnitSquare, Cardinality(UnitSquare) - 1) : s # <<>>}
PointSets == PointsOnLine \cup PointsOnSquare

InitKMeans ==
    /\ fn = ""
    /\ ret = NotCalled
    /\ frame = NoFrame
    /\ x \in PointSets
    /\ arg \in 1..(MaxLen + 1)

\* var newCentroids = sample(points, numCluster, randomSource);
\* var change = Number.MAX_VALUE;
KMeansStart ==
    /\ fn = ""
    /\ fn' = "kMeansCluster"
    /\ \E drawn \in sample(x, arg) :
           frame' = [pc |-> "while",
                     oldCentroids |-> <<>>,
                     newCentroids |-> [c \in 1..Len(drawn) |-> AsCentroid(drawn[c])],
                     labels |-> <<>>,
                     change |-> "MAX_VALUE"]
    /\ UNCHANGED <<x, arg, ret>>

\* one pass of the while (change !== 0) loop
KMeansIterate ==
    /\ fn = "kMeansCluster"
    /\ frame.pc = "while"
    /\ frame.change # "zero"
    /\ \E labels \in {labelPoints(x, frame.newCentroids)} :
       \E centroids \in {calculateCentroids(x, labels, arg)} :
           IF centroids.kind = "throw"
           THEN /\ ret' = centroids
                /\ frame' = [frame EXCEPT !.pc = "thrown", !.labels = labels,
                                          !.oldCentroids = frame.newCentroids]
           ELSE IF calculateChange(centroids.value, frame.newCentroids) = "TypeError"
           THEN /\ ret' = Thrown([centroid |-> -1, text |-> "TypeError"])
                /\ frame' = [frame EXCEPT !.pc = "thrown", !.labels = labels,
                                          !.oldCentroids = frame.newCentroids,
                                          !.newCentroids = centroids.value]
           ELSE /\ ret' = ret
                /\ frame' = [frame EXCEPT !.labels = labels,
                                          !.oldCentroids = frame.newCentroids,
                                          !.newCentroids = centroids.value,
                                          !.change = calculateChange(centroids.value,
                                                                     frame.newCentroids)]
    /\ UNCHANGED <<fn, x, arg>>

\* return { labels: labels, centroids: newCentroids }
KMeansReturn ==
    /\ fn = "kMeansCluster"
    /\ frame.pc = "while"
    /\ frame.change = "zero"
    /\ ret' = Returned([labels |-> frame.labels, centroids |-> frame.newCentroids])
    /\ frame' = [frame EXCEPT !.pc = "returned"]
    /\ UNCHANGED <<fn, x, arg>>

NextKMeans == KMeansStart \/ KMeansIterate \/ KMeansReturn

SpecKMeans == InitKMeans /\ [][NextKMeans]_vars

(***************************************************************************)
(* C6.  kMeansCluster never returns a clustering with an empty cluster:    *)
(* an iteration that leaves a cluster index in [0, numCluster) without a   *)
(* point throws "Centroid i has no friends"; it throws for every random    *)
(* source when numCluster exceeds the number of distinct point locations;  *)
(* and when it returns, every label is in [0, numCluster), there are       *)
(* numCluster centroids and every cluster index labels some point.         *)
(***************************************************************************)
Locations(points) == {points[n] : n \in 1..Len(points)}
LabelsUsed(labels) == {labels[n] : n \in 1..Len(labels)}
KMeansIterated == fn = "kMeansCluster" /\ frame.labels # <<>>

DefaultK == 10000
MaxK == 2       \* largest k handed to permutationTest, and most shuffles followed

AlternativeError == "`alternative` must be either 'two_side', 'greater', or 'less'."

\* mean(left) - mean(right) of two arrays that hold a point each
MeanDifference(left, right) == RatNorm(RatSub(mean(left).value, mean(right).value))

\* testStatDsn[i]
Slot(testStatDsn, i) == IF i < Len(testStatDsn) THEN <<At(testStatDsn, i)>> ELSE <<>>

\* the if of the three counting loops with undefined read as 0
Extreme_UndefinedAsZero(alternative, slot, testStatistic) ==
    LET stat == IF slot = <<>> THEN <<0, 1>> ELSE slot[1]
    IN  IF alternative = "two_side" THEN RatLe(RatAbs(testStatistic), RatAbs(stat))
        ELSE IF alternative = "greater" THEN RatLe(testStatistic, stat)
        ELSE RatLe(stat, testStatistic)

\* the if of the three counting loops; Math.abs(undefined) is NaN, and a
\* comparison with NaN or undefined is false
Extreme(alternative, slot, testStatistic) ==
    IF slot = <<>> THEN FALSE
    ELSE IF alternative = "two_side" THEN RatLe(RatAbs(testStatistic), RatAbs(slot[1]))
    ELSE IF alternative = "greater" THEN RatLe(testStatistic, slot[1])
    ELSE RatLe(slot[1], testStatistic)

\* for (i = 0; i <= k; i++) if (...) numExtremeTStats += 1
numExtremeTStats(alternative, testStatDsn, testStatistic, k) ==
    Cardinality({i \in 0..k : Extreme(alternative, Slot(testStatDsn, i), testStatistic)})

Alternatives ==
    {<<>>, <<"two_side">>, <<"two-sided">>, <<"two_sided">>, <<"greater">>, <<"less">>,
     <<"smaller">>}

\* the samples are listed in ascending order: the means do not depend on
\* the order, and the shuffles put the pooled data in every order
PermutationSamples == {s \in SeqsUpTo(Values, MaxLen \div 2) : IsSorted(s)}

InitPermutation ==
    /\ fn = ""
    /\ ret = NotCalled
    /\ frame = NoFrame
    /\ x \in PermutationSamples
    /\ arg \in [sampleY : PermutationSamples,
                alternative : Alternatives,
                k : {<<>>} \cup {<<n>> : n \in 0..MaxK}]

\* the head of permutationTest, up to the for loop over the shuffles
PermutationTestStart ==
    /\ fn = ""
    /\ fn' = "permutationTest"
    /\ LET k == IF arg.k = <<>> THEN DefaultK ELSE arg.k[1]
           alternative == IF arg.alternative = <<>> THEN "two_side" ELSE arg.alternative[1]
           allData == x \o arg.sampleY
       IN  IF alternative # "two_side" /\ alternative # "greater" /\ alternative # "less"
           THEN ret' = Thrown(AlternativeError) /\ frame' = [pc |-> "thrown"]
           ELSE IF mean(x).kind = "throw"
           THEN ret' = mean(x) /\ frame' = [pc |-> "thrown"]
           ELSE IF mean(arg.sampleY).kind = "throw"
           THEN ret' = mean(arg.sampleY) /\ frame' = [pc |-> "thrown"]
           ELSE /\ ret' = ret
                /\ frame' = [pc |-> "for",
                             k |-> k,
                             alternative |-> alternative,
                             testStatistic |-> MeanDifference(x, arg.sampleY),
                             testStatDsn |-> <<>>,
                             allData |-> allData,
                             midIndex |-> Len(allData) \div 2,
                             i |-> 0]
    /\ UNCHANGED <<x, arg>>

\* one pass of for (i = 0; i < k; i++)
PermutationTestShuffle ==
    /\ fn = "permutationTest"
    /\ frame.pc = "for"
    /\ frame.i < frame.k
    /\ frame.i < MaxK
    /\ \E allData \in shuffleInPlace(frame.allData) :
           LET permLeft == Slice(allData, 0, frame.midIndex)
               permRight == Slice(allData, frame.midIndex, Len(allData))
           IN  frame' = [frame EXCEPT !.allData = allData,
                                      !.testStatDsn = Append(@, MeanDifference(permLeft, permRight)),
                                      !.i = @ + 1]
    /\ UNCHANGED <<fn, x, arg, ret>>

\* the counting loop of the alternative, and return numExtremeTStats / k
PermutationTestCount ==
    /\ fn = "permutationTest"
    /\ frame.pc = "for"
    /\ frame.i >= frame.k
    /\ ret' = Returned(Quotient(numExtremeTStats(frame.alternative, frame.testStatDsn,
                                                 frame.testStatistic, frame.k),
                                frame.k))
    /\ frame' = [frame EXCEPT !.pc = "returned"]
    /\ UNCHANGED <<fn, x, arg>>

NextPermutation == PermutationTestStart \/ PermutationTestShuffle \/ PermutationTestCount

SpecPermutation == InitPermutation /\ [][NextPermutation]_vars

(***************************************************************************)
(* C9.  permutationTest returns the number of the k permuted statistics    *)
(* that are at least as extreme as mean(sampleX) - mean(sampleY), in the   *)
(* direction of the alternative, divided by k.  Each permuted statistic is *)
(* the difference of the means of the two halves of a shuffle of the       *)
(* pooled data split at the midpoint.  For k >= 1 the result is in [0,1],  *)
(* no slot beyond the k statistics is counted, and k defaults to 10000.    *)
(***************************************************************************)
PermutationRunning == fn = "permutationTest" /\ frame.pc \in {"for", "returned"}

IsPermutationOf(a, b) ==
    /\ Len(a) = Len(b)
    /\ \A v \in Values : CountIn(a, LAMBDA w : w = v) = CountIn(b, LAMBDA w : w = v)

\* stat is at least as extreme as observed in the direction of the frame
AsExtreme(stat, observed) ==
    IF frame.alternative = "greater" THEN RatLe(observed, stat)
    ELSE IF frame.alternative = "less" THEN RatLe(stat, observed)
    ELSE RatLe(RatAbs(observed), RatAbs(stat))

C9_PValueIsExtremeFraction ==
    PermutationRunning =>
        LET observed == RatSub(<<SumSeq(x), Len(x)>>, <<SumSeq(arg.sampleY), Len(arg.sampleY)>>)
            half == (Len(x) + Len(arg.sampleY)) \div 2
            extreme == {i \in 1..Len(frame.testStatDsn) :
                           AsExtreme(frame.testStatDsn[i], observed)}
        IN  /\ frame.k = IF arg.k = <<>> THEN 10000 ELSE arg.k[1]
            /\ IsPermutationOf(frame.allData, x \o arg.sampleY)
            /\ frame.i = Len(frame.testStatDsn)
            /\ frame.i >= 1 =>
                   RatEq(frame.testStatDsn[frame.i],
                         RatSub(<<SumSeq(SubSeq(frame.allData, 1, half)), half>>,
                                <<SumSeq(SubSeq(frame.allData, half + 1, Len(frame.allData))),
                                  Len(frame.allData) - half>>))
            /\ frame.pc = "returned" /\ frame.k >= 1 =>
                   /\ ret.kind = "return"
                   /\ Len(frame.testStatDsn) = frame.k
                   /\ ret.value = <<Cardinality(extreme), frame.k>>
                   /\ 0 <= ret.value[1] /\ ret.value[1] <= ret.value[2]

\* a two-sided call on samples of unlike lengths and equal means: every
\* one of the k statistics counts, the slot after them does not, and the
\* p-value is k / k
C9_Witness ==
    /\ fn = "permutationTest"
    /\ frame.pc = "returned"
    /\ frame.alternative = "two_side"
    /\ frame.k >= 2
    /\ Len(x) # Len(arg.sampleY)
    /\ frame.testStatistic = <<0, 1>>
    /\ ret.value = <<frame.k, frame.k>>

(***************************************************************************)
(* C10.  permutationTest accepts exactly the selectors "two-sided",        *)
(* "greater" and "less", treats an omitted selector as two-sided, and      *)
(* throws for any other selector before it shuffles anything.              *)
(***************************************************************************)
C10_AlternativeSelectors ==
    fn = "permutationTest" =>
        IF arg.alternative \in {<<>>, <<"two-sided">>, <<"greater">>, <<"less">>}
        THEN /\ ~(ret.kind = "throw" /\ ret.message = AlternativeError)
             /\ PermutationRunning =>
                    frame.alternative = IF arg.alternative \in {<<>>, <<"two-sided">>}
                                        THEN "two_side" ELSE arg.alternative[1]
        ELSE /\ ret = Thrown(AlternativeError)
             /\ frame = [pc |-> "thrown"]

(***************************************************************************)
(* chiSquaredGoodnessOfFit.  distributionType is a function of the caller; *)
(* what it returns for the mean of the data is either undefined (<<>>) or  *)
(* an array of probabilities (<<cells>>), each a multiple of 1/data.length *)
(* here, so that the expected frequencies are whole numbers.  A number is  *)
(* a fraction, <<0, 0>> is NaN and <<1, 0>> is Infinity.  The data is      *)
(* listed in ascending order: the histogram and the mean do not depend on  *)
(* the order.                                                              *)
(***************************************************************************)
Infinity == <<1, 0>>
NaN == <<0, 0>>

\* operator + on numbers that may be NaN or Infinity (never -Infinity here)
ExtAdd(a, b) ==
    IF a = NaN \/ b = NaN THEN NaN
    ELSE IF a = Infinity \/ b = Infinity THEN Infinity
    ELSE RatAdd(a, b)

\* the rows of chiSquaredDistributionTable
TableRows == (1..30) \cup {40, 50, 60, 70, 80, 90, 100}

\* chiSquaredDistributionTable[degreesOfFreedom][significance] in hundredths,
\* for the rows the model reaches and the columns 0.5, 0.05 and 0.01;
\* <<>> where the row has no such column
chiSquaredDistributionTable(degreesOfFreedom, significance) ==
    LET row == CASE degreesOfFreedom = 1 -> [s050 |-> 45, s005 |-> 384, s001 |-> 663]
                 [] degreesOfFreedom = 2 -> [s050 |-> 139, s005 |-> 599, s001 |-> 921]
                 [] degreesOfFreedom = 3 -> [s050 |-> 237, s005 |-> 781, s001 |-> 1134]
                 [] degreesOfFreedom = 4 -> [s050 |-> 336, s005 |-> 949, s001 |-> 1328]
    IN  CASE significance = "0.5" -> <<<<row.s050, 100>>>>
          [] significance = "0.05" -> <<<<row.s005, 100>>>>
          [] significance = "0.01" -> <<<<row.s001, 100>>>>
          [] OTHER -> <<>>

\* the two loops that build observedFrequencies: a histogram of the data
\* over 0 .. max(data), gaps filled with 0
ObservedHistogram(data) ==
    IF data = <<>> THEN <<>>
    ELSE LET top == CHOOSE v \in {data[n] : n \in 1..Len(data)} :
                        \A n \in 1..Len(data) : data[n] <= v
         IN  [c \in 1..(top + 1) |-> Cardinality({n \in 1..Len(data) : data[n] = c - 1})]

\* for (var k in hypothesizedDistribution) if (k in observedFrequencies)
\*     expectedFrequencies[+k] = hypothesizedDistribution[k] * data.length
ExpectedHistogram(hypothesizedDistribution, observedFrequencies, length) ==
    IF hypothesizedDistribution = <<>> THEN <<>>
    ELSE LET cells == hypothesizedDistribution[1]
         IN  [c \in 1..Min(Len(cells), Len(observedFrequencies)) |->
                 RatNorm(<<cells[c][1] * length, cells[c][2]>>)]

\* array.pop()
Pop(array) == SubSeq(array, 1, Len(array) - 1)

\* for (k = expectedFrequencies.length - 1; k >= 0; k--) if (... < 3) { ... };
\* array[k - 1] += array[k] writes, at k = 0, the property -1, which is no
\* element of the array
RECURSIVE CollapseLoop(_, _, _)
CollapseLoop(k, expectedFrequencies, observedFrequencies) ==
    IF k < 0
    THEN [expectedFrequencies |-> expectedFrequencies,
          observedFrequencies |-> observedFrequencies]
    ELSE IF RatLt(At(expectedFrequencies, k), <<3, 1>>)
    THEN CollapseLoop(k - 1,
                      Pop(IF k >= 1
                          THEN [expectedFrequencies EXCEPT
                                    ![k] = RatAdd(@, expectedFrequencies[k + 1])]
                          ELSE expectedFrequencies),
                      Pop(IF k >= 1
                          THEN [observedFrequencies EXCEPT
                                    ![k] = @ + observedFrequencies[k + 1]]
                          ELSE observedFrequencies))
    ELSE CollapseLoop(k - 1, expectedFrequencies, observedFrequencies)

\* Math.pow(observed - expected, 2) / expected, expected <<>> when the
\* index is past the end of expectedFrequencies
SquaredDifferenceRatio(observed, expected) ==
    IF expected = <<>> THEN NaN
    ELSE IF expected[1][1] = 0 THEN (IF observed = 0 THEN NaN ELSE Infinity)
    ELSE LET diff == RatSub(<<observed, 1>>, expected[1])
         IN  RatNorm(<<diff[1] * diff[1] * expected[1][2], diff[2] * diff[2] * expected[1][1]>>)

\* the loop accumulating chiSquared
RECURSIVE ChiSquaredLoop(_, _, _, _)
ChiSquaredLoop(k, observedFrequencies, expectedFrequencies, chiSquared) ==
    IF k >= Len(observedFrequencies) THEN chiSquared
    ELSE ChiSquaredLoop(k + 1, observedFrequencies, expectedFrequencies,
             ExtAdd(chiSquared,
                    SquaredDifferenceRatio(At(observedFrequencies, k),
                        IF k < Len(expectedFrequencies)
                        THEN <<At(expectedFrequencies, k)>> ELSE <<>>)))

\* the comparison of the return statement turned around
TableLess_Flipped(tableValue, chiSquared) ==
    IF tableValue = <<>> \/ chiSquared = NaN \/ chiSquared = Infinity THEN FALSE
    ELSE RatLt(chiSquared, tableValue[1])

\* operator < of the return statement; undefined converts to NaN
TableLess(tableValue, chiSquared) ==
    IF tableValue = <<>> \/ chiSquared = NaN THEN FALSE
    ELSE IF chiSquared = Infinity THEN TRUE
    ELSE RatLt(tableValue[1], chiSquared)

\* arrays of cells c/length, c a whole number, that sum to 1 at most
RECURSIVE CellCounts(_, _)
CellCounts(classes, total) ==
    IF classes = 0 THEN {<<>>}
    ELSE UNION {{<<c>> \o rest : rest \in CellCounts(classes - 1, total - c)} : c \in 0..total}

Distributions(length) ==
    {<<>>} \cup
    {<<[c \in 1..Len(counts) |-> <<counts[c], length>>]>> :
        counts \in UNION {CellCounts(classes, length) : classes \in 1..(MaxVal + 1)}}

Significances == {"0.5", "0.05", "0.2"}

\* the data of the documented example (Hines & Montgomery 10-19), with
\* distributions given by their expected counts out of 60: one close to the
\* Poisson distribution of its mean, and others that leave four, two or
\* fewer classes, or put a small class under large ones
ChiSquaredExampleData ==
    [n \in 1..60 |-> IF n <= 32 THEN 0 ELSE IF n <= 47 THEN 1 ELSE IF n <= 56 THEN 2 ELSE 3]
ChiSquaredExampleDistributions ==
    {<<[c \in 1..Len(counts) |-> <<counts[c], 60>>]>> :
        counts \in {<<28, 21, 8, 2, 1>>, <<20, 20, 10, 10>>, <<40, 18, 1, 1>>,
                    <<1, 1, 29, 29>>, <<30, 30>>, <<2, 28, 15, 15>>, <<60, 0, 0, 0>>}}

InitChiSquared ==
    /\ fn = ""
    /\ ret = NotCalled
    /\ frame = NoFrame
    /\ \/ /\ x \in {s \in Samples : IsSorted(s)}
          /\ arg \in [distribution : Distributions(Len(x)), significance : Significances]
       \/ /\ x = ChiSquaredExampleData
          /\ arg \in [distribution : ChiSquaredExampleDistributions,
                      significance : Significances \cup {"0.01"}]

CallChiSquaredGoodnessOfFit ==
    /\ fn = ""
    /\ fn' = "chiSquaredGoodnessOfFit"
    /\ IF mean(x).kind = "throw"
       THEN ret' = mean(x) /\ frame' = [pc |-> "thrown"]
       ELSE \E observed \in {ObservedHistogram(x)} :
            \E collapsed \in {CollapseLoop(
                                 Len(ExpectedHistogram(arg.distribution, observed, Len(x))) - 1,
                                 ExpectedHistogram(arg.distribution, observed, Len(x)),
                                 observed)} :
            \E chiSquared \in {ChiSquaredLoop(0, collapsed.observedFrequencies,
                                              collapsed.expectedFrequencies, <<0, 1>>)} :
                LET degreesOfFreedom == Len(collapsed.observedFrequencies) - 1 - 1
                    after == [observedFrequencies |-> collapsed.observedFrequencies,
                              expectedFrequencies |-> collapsed.expectedFrequencies,
                              chiSquared |-> chiSquared,
                              degreesOfFreedom |-> degreesOfFreedom]
                IN  IF degreesOfFreedom \in TableRows
                    THEN /\ ret' = Returned(TableLess(
                                       chiSquaredDistributionTable(degreesOfFreedom,
                                                                   arg.significance),
                                       chiSquared))
                         /\ frame' = [pc |-> "returned"] @@ after
                    ELSE /\ ret' = Thrown("TypeError")
                         /\ frame' = [pc |-> "thrown"] @@ after
    /\ UNCHANGED <<x, arg>>

SpecChiSquared == InitChiSquared /\ [][CallChiSquaredGoodnessOfFit]_vars

(***************************************************************************)
(* C11.  After the collapse of chiSquaredGoodnessOfFit, for a distribution *)
(* that has a cell for every observed class: the observed counts still sum *)
(* to the sample size, the expected and observed histograms have the same  *)
(* classes, and no class other than the first has an expected count below  *)
(* 3 (every class below 3 was merged into its predecessor and was itself   *)
(* the class removed).                                                     *)
(***************************************************************************)
ChiSquaredCollapsed ==
    /\ fn = "chiSquaredGoodnessOfFit"
    /\ frame.pc \in {"returned", "thrown"}
    /\ x # <<>>
    /\ arg.distribution # <<>>
    /\ Len(arg.distribution[1]) >= Len(ObservedHistogram(x))

C11_CollapseMergesIntoPredecessor ==
    ChiSquaredCollapsed =>
        /\ SumSeq(frame.observedFrequencies) = Len(x)
        /\ Len(frame.expectedFrequencies) = Len(frame.observedFrequencies)
        /\ \A k \in 1..(Len(frame.expectedFrequencies) - 1) :
               ~RatLt(At(frame.expectedFrequencies, k), <<3, 1>>)

(***************************************************************************)
(* C12.  When the number of classes left after the collapse, minus 2, is   *)
(* not a row of the critical-value table, chiSquaredGoodnessOfFit throws   *)
(* and returns nothing; whenever it returns, the value is the boolean      *)
(* table[degreesOfFreedom][significance] < chiSquared.                     *)
(***************************************************************************)
ChiSquaredEnded ==
    /\ fn = "chiSquaredGoodnessOfFit"
    /\ frame.pc \in {"returned", "thrown"}
    /\ x # <<>>

MaxTrains == 2  \* most train calls made on one model

EmptyObject == <<>>
HasKey(object, k) == k \in DOMAIN object
WithKey(object, k, v) == [j \in DOMAIN object \cup {k} |-> IF j = k THEN v ELSE object[j]]

\* the for (var k in item) loop of train
RECURSIVE BayesTrainLoop(_, _, _)
BayesTrainLoop(i, item, counts) ==
    IF i > Len(item) THEN counts
    ELSE LET k == item[i][1]
             v == item[i][2]
             ofKey == IF HasKey(counts, k) THEN counts[k] ELSE EmptyObject
             ofValue == IF HasKey(ofKey, v) THEN ofKey[v] ELSE 0
         IN  BayesTrainLoop(i + 1, item, WithKey(counts, k, WithKey(ofKey, v, ofValue + 1)))

\* BayesianClassifier.prototype.train: the fields after the call
BayesTrain(model, item, category) ==
    [totalCount |-> model.totalCount + 1,
     data |-> WithKey(model.data, category,
                      BayesTrainLoop(1, item,
                                     IF HasKey(model.data, category)
                                     THEN model.data[category] ELSE EmptyObject))]

\* the for (var k in item) loop of score: odds[category] = {} on every pass
RECURSIVE BayesOddsLoop(_, _, _, _)
BayesOddsLoop(i, item, model, odds) ==
    IF i > Len(item) THEN odds
    ELSE LET k == item[i][1]
             v == item[i][2]
             odd(category) ==
                 IF HasKey(model.data[category], k)
                 THEN RatNorm(<<IF HasKey(model.data[category][k], v)
                                THEN model.data[category][k][v] ELSE 0,
                                model.totalCount>>)
                 ELSE <<0, 1>>
         IN  BayesOddsLoop(i + 1, item, model,
                 [category \in DOMAIN model.data |->
                     WithKey(EmptyObject, <<k, v>>, odd(category))])

\* the tally of odds[category] over its combinations
RECURSIVE BayesTally(_)
BayesTally(combinations) ==
    IF DOMAIN combinations = {} THEN <<0, 1>>
    ELSE LET c == CHOOSE c \in DOMAIN combinations : TRUE
         IN  RatAdd(combinations[c],
                    BayesTally([j \in DOMAIN combinations \ {c} |-> combinations[j]]))

\* BayesianClassifier.prototype.score
BayesScore(model, item) ==
    LET odds == BayesOddsLoop(1, item, model, EmptyObject)
    IN  [category \in DOMAIN odds |-> BayesTally(odds[category])]

Keys == {"a", "b"}
Categories == {"c1", "c2"}
\* objects with properties among Keys, each 0 or 1, in either order
Items ==
    {item \in SeqsUpTo(Keys \X {0, 1}, Cardinality(Keys)) :
        \A i, j \in 1..Len(item) : i # j => item[i][1] # item[j][1]}

InitBayes ==
    /\ fn = ""
    /\ x = <<>>
    /\ arg = <<>>
    /\ ret = NotCalled
    /\ frame = [totalCount |-> 0, data |-> EmptyObject, trained |-> <<>>]

BayesianClassifierTrain ==
    /\ Len(frame.trained) < MaxTrains
    /\ \E item \in Items, category \in Categories :
           /\ fn' = "BayesianClassifier.train"
           /\ x' = item
           /\ arg' = category
           /\ ret' = Returned(<<>>)
           /\ frame' = BayesTrain(frame, item, category) @@
                           [trained |-> Append(frame.trained, <<item, category>>)]

BayesianClassifierScore ==
    /\ \E item \in Items :
           /\ fn' = "BayesianClassifier.score"
           /\ x' = item
           /\ arg' = <<>>
           /\ ret' = Returned(BayesScore(frame, item))
           /\ UNCHANGED frame

NextBayes == BayesianClassifierTrain \/ BayesianClassifierScore

SpecBayes == InitBayes /\ [][NextBayes]_vars

(***************************************************************************)
(* C13.  score(item), for an item with a property at least, returns for    *)
(* every category trained so far the sum over all the properties k of the  *)
(* item of (number of trained items of that category whose property k had  *)
(* the value item[k]) / totalCount, totalCount being the number of train   *)
(* calls; a property or value never seen for the category adds 0.          *)
(***************************************************************************)
TrainedMatches(category, property) ==
    Cardinality({n \in 1..Len(frame.trained) :
                    /\ frame.trained[n][2] = category
                    /\ \E i \in 1..Len(frame.trained[n][1]) :
                           frame.trained[n][1][i] = property})

C13_ScoreSumsAllFeatures ==
    fn = "BayesianClassifier.score" /\ x # <<>> =>
        /\ DOMAIN ret.value = {frame.trained[n][2] : n \in 1..Len(frame.trained)}
        /\ \A category \in DOMAIN ret.value :
               RatEq(ret.value[category],
                     <<SumSeq([i \in 1..Len(x) |-> TrainedMatches(category, x[i])]),
                       Len(frame.trained)>>)

(***************************************************************************)
(* PerceptronModel.  Arrays are objects: frame.heap lists the arrays the   *)
(* caller has created, an array is named by its place in the heap, and     *)
(* place 0 names the empty array the constructor gave to this.weights.     *)
(* frame.weights is the place this.weights refers to.  x is the array      *)
(* handed to the call: its place (ref) and its elements at the time of     *)
(* the call (value).                                                       *)
(***************************************************************************)
CallerArrays == {1, 2}  \* the arrays the caller creates, by reference
MaxWeight == 3  \* weights and bias followed between -MaxWeight and MaxWeight

Deref(heap, ref) == IF ref = 0 THEN <<>> ELSE heap[ref]

\* PerceptronModel.prototype.predict; null is <<>> and a number n is <<n>>
perceptronPredict(model, features) ==
    LET weights == Deref(model.heap, model.weights)
        score == SumSeq([i \in 1..Len(weights) |-> weights[i] * features[i]]) + model.bias
    IN  IF Len(features) # Len(weights) THEN <<>>
        ELSE IF score > 0 THEN <<1>> ELSE <<0>>

\* train that keeps the old bias when it takes new weights
perceptronTrain_KeepsBias(model, ref, label) ==
    LET features == Deref(model.heap, ref)
        initialised == IF Len(features) # Len(Deref(model.heap, model.weights))
                       THEN [model EXCEPT !.weights = ref]
                       ELSE model
        prediction == perceptronPredict(initialised, features)
        gradient == label - prediction[1]
        updated == [i \in 1..Len(features) |->
                       Deref(initialised.heap, initialised.weights)[i] + gradient * features[i]]
    IN  IF label # 0 /\ label # 1 THEN model
        ELSE IF prediction # <<>> /\ prediction[1] # label
        THEN [initialised EXCEPT
                 !.heap = IF initialised.weights = 0 THEN @
                          ELSE [@ EXCEPT ![initialised.weights] = updated],
                 !.bias = @ + gradient]
        ELSE initialised

\* train that leaves the bias alone when it corrects the weights
perceptronTrain_FixedBias(model, ref, label) ==
    LET features == Deref(model.heap, ref)
        initialised == IF Len(features) # Len(Deref(model.heap, model.weights))
                       THEN [model EXCEPT !.weights = ref, !.bias = 1]
                       ELSE model
        prediction == perceptronPredict(initialised, features)
        gradient == label - prediction[1]
        updated == [i \in 1..Len(features) |->
                       Deref(initialised.heap, initialised.weights)[i] + gradient * features[i]]
    IN  IF label # 0 /\ label # 1 THEN model
        ELSE IF prediction # <<>> /\ prediction[1] # label
        THEN [initialised EXCEPT
                 !.heap = IF initialised.weights = 0 THEN @
                          ELSE [@ EXCEPT ![initialised.weights] = updated]]
        ELSE initialised

\* PerceptronModel.prototype.train: the fields and the heap after the call;
\* this.weights = features makes the two names refer to one array
perceptronTrain(model, ref, label) ==
    LET features == Deref(model.heap, ref)
        initialised == IF Len(features) # Len(Deref(model.heap, model.weights))
                       THEN [model EXCEPT !.weights = ref, !.bias = 1]
                       ELSE model
        prediction == perceptronPredict(initialised, features)
        gradient == label - prediction[1]
        updated == [i \in 1..Len(features) |->
                       Deref(initialised.heap, initialised.weights)[i] + gradient * features[i]]
    IN  IF label # 0 /\ label # 1 THEN model
        ELSE IF prediction # <<>> /\ prediction[1] # label
        THEN [initialised EXCEPT
                 !.heap = IF initialised.weights = 0 THEN @
                          ELSE [@ EXCEPT ![initialised.weights] = updated],
                 !.bias = @ + gradient]
        ELSE initialised

FeatureArrays == SeqsUpTo({0, 1}, 2)
Labels == {0, 1, 2}

InitPerceptron ==
    /\ fn = ""
    /\ x = <<>>
    /\ arg = <<>>
    /\ ret = NotCalled
    /\ frame = [heap |-> <<>>, weights |-> 0, bias |-> 0]

\* the caller creates an array
CallerCreatesArray ==
    /\ (Len(frame.heap) + 1) \in CallerArrays
    /\ \E features \in FeatureArrays :
           /\ fn' = "new Array"
           /\ x' = [ref |-> Len(frame.heap) + 1, value |-> features]
           /\ frame' = [frame EXCEPT !.heap = Append(@, features)]
    /\ arg' = <<>>
    /\ ret' = NotCalled

\* the caller writes an element of one of its arrays
CallerWritesArray ==
    /\ \E ref \in 1..Len(frame.heap) :
       \E i \in 1..Len(frame.heap[ref]) :
       \E v \in {0, 1} :
           /\ fn' = "array[i] = v"
           /\ x' = [ref |-> ref, value |-> frame.heap[ref]]
           /\ arg' = <<i - 1, v>>
           /\ frame' = [frame EXCEPT !.heap[ref][i] = v]
    /\ ret' = NotCalled

InRangeOfWeights(model) ==
    /\ model.bias \in (-MaxWeight)..MaxWeight
    /\ \A i \in 1..Len(Deref(model.heap, model.weights)) :
           Deref(model.heap, model.weights)[i] \in (-MaxWeight)..MaxWeight

PerceptronModelTrain ==
    /\ \E ref \in 1..Len(frame.heap) :
       \E label \in Labels :
           /\ InRangeOfWeights(perceptronTrain(frame, ref, label))
           /\ fn' = "PerceptronModel.train"
           /\ x' = [ref |-> ref, value |-> frame.heap[ref]]
           /\ arg' = label
           /\ ret' = Returned(IF label # 0 /\ label # 1 THEN "null" ELSE "this")
           /\ frame' = perceptronTrain(frame, ref, label)

PerceptronModelPredict ==
    /\ \E ref \in 1..Len(frame.heap) :
           /\ fn' = "PerceptronModel.predict"
           /\ x' = [ref |-> ref, value |-> frame.heap[ref]]
           /\ ret' = Returned(perceptronPredict(frame, frame.heap[ref]))
    /\ arg' = <<>>
    /\ UNCHANGED frame

NextPerceptron ==
    \/ CallerCreatesArray
    \/ CallerWritesArray
    \/ PerceptronModelTrain
    \/ PerceptronModelPredict

SpecPerceptron == InitPerceptron /\ [][NextPerceptron]_vars

(***************************************************************************)
(* C14.  Every step of PerceptronModel.train(features, label) is this      *)
(* transition: a label other than 0 and 1 returns null and leaves weights  *)
(* and bias as they were; otherwise, when features.length differs from the *)
(* number of weights, the weights become the feature values and the bias   *)
(* 1; then, with prediction = predict(features), a prediction other than   *)
(* the label adds (label - prediction) * features[i] to every weight i and *)
(* (label - prediction) to the bias, and a right prediction changes        *)
(* nothing.                                                                *)
(***************************************************************************)
WeightsOf(model) == Deref(model.heap, model.weights)

TrainTransition ==
    LET features == x'.value
        label == arg'
        fresh == Len(features) # Len(WeightsOf(frame))
        weights == IF fresh THEN features ELSE WeightsOf(frame)
        bias == IF fresh THEN 1 ELSE frame.bias
        prediction ==
            IF SumSeq([i \in 1..Len(weights) |-> weights[i] * features[i]]) + bias > 0
            THEN 1 ELSE 0
    IN  IF label \notin {0, 1}
        THEN /\ ret'.value = "null"
             /\ WeightsOf(frame') = WeightsOf(frame)
             /\ frame'.bias = frame.bias
        ELSE IF prediction # label
        THEN /\ WeightsOf(frame') =
                    [i \in 1..Len(weights) |-> weights[i] + (label - prediction) * features[i]]
             /\ frame'.bias = bias + (label - prediction)
        ELSE /\ WeightsOf(frame') = weights
             /\ frame'.bias = bias

C14_TrainTransition == [][fn' = "PerceptronModel.train" => TrainTransition]_vars

\* a train call that took the two features as its weights and, the
\* prediction being wrong, moved them and the bias
C14_Witness ==
    /\ fn = "PerceptronModel.train"
    /\ arg = 0
    /\ Len(x.value) = 2
    /\ frame.weights = x.ref
    /\ WeightsOf(frame) # x.value
    /\ frame.bias = 0

(***************************************************************************)
(* C15.  The model owns its state: predict leaves weights and bias as they *)
(* were; train does not modify the feature array handed to it; and after   *)
(* train has returned, a write of the caller to that array does not change *)
(* the weights of the model.                                               *)
(***************************************************************************)
C15_ModelOwnsItsState ==
    [][/\ fn' = "PerceptronModel.predict" =>
              WeightsOf(frame') = WeightsOf(frame) /\ frame'.bias = frame.bias
       /\ fn' = "PerceptronModel.train" => frame'.heap[x'.ref] = x'.value
       /\ fn' = "array[i] = v" =>
              WeightsOf(frame') = WeightsOf(frame) /\ frame'.bias = frame.bias]_vars

(***************************************************************************)
(* modeSorted, mode and modeFast, called on the samples of InitMoments.    *)
(***************************************************************************)
\* the for (i = 1; i < sorted.length + 1; i++) loop of modeSorted; state is
\* [last, value, maxSeen, seenThis], and sorted[sorted.length] is undefined
RECURSIVE ModeSortedLoop(_, _, _)
ModeSortedLoop(i, sorted, state) ==
    IF i >= Len(sorted) + 1 THEN state.value
    ELSE ModeSortedLoop(i + 1, sorted,
             IF i >= Len(sorted) \/ At(sorted, i) # state.last
             THEN [last |-> IF i < Len(sorted) THEN At(sorted, i) ELSE state.last,
                   value |-> IF state.seenThis > state.maxSeen THEN state.last ELSE state.value,
                   maxSeen |-> Max(state.seenThis, state.maxSeen),
                   seenThis |-> 1]
             ELSE [state EXCEPT !.seenThis = @ + 1])

modeSorted(sorted) ==
    IF Len(sorted) = 0 THEN Thrown("mode requires at least one data point")
    ELSE IF Len(sorted) = 1 THEN Returned(At(sorted, 0))
    ELSE Returned(ModeSortedLoop(1, sorted,
                      [last |-> At(sorted, 0), value |-> -1, maxSeen |-> 0, seenThis |-> 1]))

mode(xs) == modeSorted(numericSort(xs))

\* the for loop of modeFast; index.get(x[i]) is the number of earlier
\* elements equal to x[i]
RECURSIVE ModeFastLoop(_, _, _)
ModeFastLoop(i, xs, state) ==
    IF i >= Len(xs) THEN state
    ELSE LET newCount == Cardinality({j \in 0..i : At(xs, j) = At(xs, i)})
         IN  ModeFastLoop(i + 1, xs,
                 IF newCount > state.modeCount
                 THEN [mode |-> At(xs, i), modeCount |-> newCount] ELSE state)

modeFast(xs) ==
    LET state == ModeFastLoop(0, xs, [mode |-> -1, modeCount |-> 0])
    IN  IF state.modeCount = 0 THEN Thrown("mode requires at last one data point")
        ELSE Returned(state.mode)

NextMode ==
    \/ IsSorted(x) /\ Call("modeSorted", modeSorted(x))
    \/ Call("mode", mode(x))
    \/ Call("modeFast", modeFast(x))

SpecMode == InitMoments /\ [][NextMode]_vars

(***************************************************************************)
(* C16.  When several values tie for the highest number of occurrences,    *)
(* mode(x) and modeSorted(sorted) return the tied value that comes last    *)
(* in sorted order, and modeFast(x) the tied value seen last in input      *)
(* order.                                                                  *)
(***************************************************************************)
Occurrences(v) == CountIn(x, LAMBDA w : w = v)
TiedValues == {v \in Values : Occurrences(v) > 0 /\ \A w \in Values : Occurrences(w) <= Occurrences(v)}
LastSeen(v) == CHOOSE i \in 1..Len(x) : x[i] = v /\ \A j \in (i + 1)..Len(x) : x[j] # v

C16_TieReturnsMostRecent ==
    /\ fn \in {"mode", "modeSorted"} /\ x # <<>> =>
           ret = Returned(CHOOSE v \in TiedValues : \A w \in TiedValues : w <= v)
    /\ fn = "modeFast" /\ x # <<>> =>
           ret = Returned(CHOOSE v \in TiedValues :
                              \A w \in TiedValues : LastSeen(w) <= LastSeen(v))

(***************************************************************************)
(* sum on arrays whose elements need not be numbers.  An element is        *)
(* [type, value]: typeof of the element and, for a number, its value.      *)
(* The loop is the Kahan-Babuska loop in whole numbers.                    *)
(***************************************************************************)
Elements ==
    [type : {"number"}, value : Values] \cup [type : {"string", "undefined"}, value : {0}]

\* for (var i = 1; i < x.length; i++) of sum; state is [sum, correction]
RECURSIVE SumLoop(_, _, _)
SumLoop(i, xs, state) ==
    IF i >= Len(xs) THEN Returned(<<state.sum + state.correction, 1>>)
    ELSE IF At(xs, i).type # "number" THEN Returned(NaN)
    ELSE LET element == At(xs, i).value
             transition == state.sum + element
         IN  SumLoop(i + 1, xs,
                 [sum |-> transition,
                  correction |-> state.correction +
                      (IF Abs(state.sum) >= Abs(element)
                       THEN state.sum - transition + element
                       ELSE element - transition + state.sum)])

\* sum with the test of typeof left out of the loop
sumOfElements_ChecksFirstOnly(xs) ==
    IF Len(xs) = 0 THEN Returned(<<0, 1>>)
    ELSE IF At(xs, 0).type # "number" THEN Returned(NaN)
    ELSE Returned(<<SumSeq([i \in 1..Len(xs) |-> xs[i].value]), 1>>)

\* sum
sumOfElements(xs) ==
    IF Len(xs) = 0 THEN Returned(<<0, 1>>)
    ELSE IF At(xs, 0).type # "number" THEN Returned(NaN)
    ELSE SumLoop(1, xs, [sum |-> At(xs, 0).value, correction |-> 0])

InitSum ==
    /\ fn = ""
    /\ ret = NotCalled
    /\ frame = NoFrame
    /\ x \in SeqsUpTo(Elements, MaxLen)
    /\ arg = <<>>

CallSum == Call("sum", sumOfElements(x))

SpecSum == InitSum /\ [][CallSum]_vars

(***************************************************************************)
(* C17.  sum(x) returns 0 for the empty array, returns NaN without         *)
(* throwing when any element of x, at whatever position, is not of number  *)
(* type, and otherwise returns the arithmetic sum of the elements.         *)
(***************************************************************************)
C17_SumOrNaN ==
    fn = "sum" =>
        /\ ret.kind = "return"
        /\ x = <<>> => ret.value = <<0, 1>>
        /\ (\E i \in 1..Len(x) : x[i].type # "number") => ret.value = NaN
        /\ (\A i \in 1..Len(x) : x[i].type = "number") =>
               ret.value = <<SumSeq([i \in 1..Len(x) |-> x[i].value]), 1>>

\* a sum over an array whose last element only is not a number
C17_Witness ==
    /\ fn = "sum"
    /\ Len(x) >= 3
    /\ x[Len(x)].type = "undefined"
    /\ \A i \in 1..(Len(x) - 1) : x[i].type = "number"
    /\ ret.value = NaN

(***************************************************************************)
(* The paired-sample statistics: sampleCovariance, sampleCorrelation,      *)
(* sampleRankCorrelation, and Correlation.pearson of the vendored jerzy.   *)
(* An array may have holes (the rank arrays): an element is <<v>>, a hole  *)
(* or an index past the end <<>>, which reads as undefined.  A correlation *)
(* is NaN or the three exact numbers <<c, a, b>> it is computed from, as   *)
(* c / sqrt(a) / sqrt(b) or c / sqrt(a * b).                               *)
(***************************************************************************)
HasHole(xs) == \E i \in 1..Len(xs) : xs[i] = <<>>
\* n * n times the sum over i of (a[i] - mean(a)) * (b[i] - mean(b)), i below n
DeviationProducts(a, b, n) ==
    LET total(xs) == SumSeq([i \in 1..Len(xs) |-> xs[i][1]])
    IN  SumSeq([i \in 1..n |-> (Len(a) * a[i][1] - total(a)) * (Len(b) * b[i][1] - total(b))])

sampleCovariance(xs, ys) ==
    IF Len(xs) # Len(ys)
    THEN Thrown("sampleCovariance requires samples with equal lengths")
    ELSE IF Len(xs) < 2
    THEN Thrown("sampleCovariance requires at least two data points in each sample")
    ELSE IF HasHole(xs) \/ HasHole(ys) THEN Returned(NaN)
    ELSE Returned(<<DeviationProducts(xs, ys, Len(xs)), Len(xs) * Len(xs) * (Len(xs) - 1)>>)

\* cov / xstd / ystd, the deviations being the roots of sampleVariance
sampleCorrelation(xs, ys) ==
    LET cov == sampleCovariance(xs, ys)
        xvar == sampleCovariance(xs, xs).value
        yvar == sampleCovariance(ys, ys).value
    IN  IF cov.kind = "throw" THEN cov
        ELSE IF cov.value = NaN \/ xvar[1] = 0 \/ yvar[1] = 0 THEN Returned(NaN)
        ELSE Returned(<<cov.value, xvar, yvar>>)

\* the place of element j (from 0) after the stable sort by value
RankOf(xs, j) ==
    Cardinality({k \in 0..(Len(xs) - 1) :
                    At(xs, k) < At(xs, j) \/ (At(xs, k) = At(xs, j) /\ k < j)})

\* Array(length) after ranks[indexes[i]] = i for every i below length
RankArray(xs, length) ==
    LET written == {j \in 0..(Len(xs) - 1) : RankOf(xs, j) < length}
        top == IF written = {} THEN 0
               ELSE 1 + CHOOSE j \in written : \A k \in written : k <= j
    IN  [c \in 1..Max(length, top) |->
            IF (c - 1) \in written THEN <<RankOf(xs, c - 1)>> ELSE <<>>]

sampleRankCorrelation(xs, ys) ==
    sampleCorrelation(RankArray(xs, Len(xs)), RankArray(ys, Len(xs)))

\* result.r of Correlation.pearson; the vectors are read up to x.length()
pearson(xs, ys) ==
    LET squares(v) == DeviationProducts(Boxed(v), Boxed(v), Len(v))
    IN  IF Len(xs) = 0 \/ Len(ys) < Len(xs) \/ squares(xs) = 0 \/ squares(ys) = 0
        THEN Returned(NaN)
        ELSE Returned(<<<<DeviationProducts(Boxed(xs), Boxed(ys), Len(xs)), Len(xs) * Len(ys)>>,
                        <<squares(xs), Len(xs) * Len(xs)>>,
                        <<squares(ys), Len(ys) * Len(ys)>>>>)

PairedSamples == SeqsUpTo(Values, MaxLen - 1)

InitPaired ==
    /\ fn = ""
    /\ ret = NotCalled
    /\ frame = NoFrame
    /\ x \in PairedSamples
    /\ arg \in PairedSamples

NextPaired ==
    \/ Call("sampleCovariance", sampleCovariance(Boxed(x), Boxed(arg)))
    \/ Call("sampleCorrelation", sampleCorrelation(Boxed(x), Boxed(arg)))
    \/ Call("sampleRankCorrelation", sampleRankCorrelation(x, arg))
    \/ Call("Correlation.pearson", pearson(x, arg))

SpecPaired == InitPaired /\ [][NextPaired]_vars

(***************************************************************************)
(* C18.  sampleCovariance, sampleCorrelation, sampleRankCorrelation and    *)
(* Correlation.pearson throw when their two samples have different         *)
(* lengths, whichever is the longer, and return nothing.                   *)
(***************************************************************************)
C18_UnequalLengthsThrow ==
    /\ fn \in {"sampleCovariance", "sampleCorrelation", "sampleRankCorrelation",
               "Correlation.pearson"}
    /\ Len(x) # Len(arg)
    => ret.kind = "throw"

(***************************************************************************)
(* quantileSorted and quantile with p below 0 or above 1.                  *)
(***************************************************************************)
OutsideFractions ==
    {f \in ((-MaxDen)..(2 * MaxDen)) \X (1..MaxDen) :
        (f[1] < 0 \/ f[1] > f[2]) /\ Gcd(IF f[1] < 0 THEN -f[1] ELSE f[1], f[2]) = 1}

InitQuantileOutside ==
    /\ fn = ""
    /\ ret = NotCalled
    /\ frame = NoFrame
    /\ x \in Samples \ {<<>>}
    /\ arg \in [kind : {"number"}, p : OutsideFractions]

NextQuantileOutside == CallQuantileSorted \/ CallQuantile

SpecQuantileOutside == InitQuantileOutside /\ [][NextQuantileOutside]_vars

(***************************************************************************)
(* C19.  For a non-empty x and p < 0 or p > 1, quantileSorted(x, p) and    *)
(* quantile(x, p) end by throwing "quantiles must be between 0 and 1":     *)
(* the selection on the out-of-range index ends and no value is returned,  *)
(* and x is as it was before the call.                                     *)
(***************************************************************************)
C19_OutsideRangeThrows ==
    [][fn' \in {"quantileSorted", "quantile"} =>
           /\ ret' = Thrown("quantiles must be between 0 and 1")
           /\ x' = x]_vars

\* a call of quantile whose selection step has rearranged the copy
C19_Witness ==
    /\ fn = "quantile"
    /\ ret.kind = "throw"
    /\ QuantileCopy(x, arg.p) # Boxed(x)

(***************************************************************************)
(* chunk and binomialDistribution.  A chunk size or a trial count is a     *)
(* reduced fraction <<num, den>> with den 1 or 2, so that it can be        *)
(* negative, zero, or not an integer.                                      *)
(***************************************************************************)
\* chunk with the loop run while a whole chunk is left
chunk_DropsShortChunk(xs, chunkSize) ==
    IF RatLt(chunkSize, <<1, 1>>) THEN Thrown("chunk size must be a positive number")
    ELSE IF chunkSize[2] # 1 THEN Thrown("chunk size must be an integer")
    ELSE LET size == chunkSize[1]
             output[start \in 0..(Len(xs) + size)] ==
                 IF start + size <= Len(xs)
                 THEN <<Slice(xs, start, Min(start + size, Len(xs)))>> \o output[start + size]
                 ELSE <<>>
         IN  Returned(output[0])

\* output[start] is what the for loop pushes from start on; slice stops
\* at the end of x
chunk(xs, chunkSize) ==
    IF RatLt(chunkSize, <<1, 1>>) THEN Thrown("chunk size must be a positive number")
    ELSE IF chunkSize[2] # 1 THEN Thrown("chunk size must be an integer")
    ELSE LET size == chunkSize[1]
             output[start \in 0..(Len(xs) + size)] ==
                 IF start < Len(xs)
                 THEN <<Slice(xs, start, Min(start + size, Len(xs)))>> \o output[start + size]
                 ELSE <<>>
         IN  Returned(output[0])

\* The cells are exact: cells[k] = coefficient[k] * a^k * (b - a)^(n - k)
\* over b^n for probability a/b.  The do-while loop ends at the first k
\* whose cumulative probability is not below 1 - epsilon = 9999/10000,
\* at the latest at k = n, where it is 1.  undefined is <<>>.
binomialDistribution(trials, probability) ==
    IF \/ probability[1] < 0 \/ probability[1] > probability[2]
       \/ trials[1] <= 0 \/ trials[2] # 1
    THEN Returned(<<>>)
    ELSE LET n == trials[1]
             coefficient[k \in 0..n] ==
                 IF k = 0 THEN 1 ELSE (coefficient[k - 1] * (n - k + 1)) \div k
             cell[k \in 0..n] ==
                 coefficient[k] * Power(probability[1], k)
                     * Power(probability[2] - probability[1], n - k)
             cumulative[k \in 0..n] == cell[k] + (IF k = 0 THEN 0 ELSE cumulative[k - 1])
             ended(k) == 10000 * cumulative[k] >= 9999 * Power(probability[2], n)
             last == CHOOSE k \in 0..n : ended(k) /\ \A h \in 0..(k - 1) : ~ended(h)
         IN  Returned([k \in 1..(last + 1) |-> <<cell[k - 1], Power(probability[2], n)>>])

HalfSteps ==
    {r \in ((-MaxLen)..(MaxLen + 1)) \X {1, 2} : Gcd(IF r[1] < 0 THEN -r[1] ELSE r[1], r[2]) = 1}

InitChunk ==
    /\ fn = ""
    /\ ret = NotCalled
    /\ frame = NoFrame
    /\ \/ x \in Samples /\ arg \in [chunkSize : HalfSteps]
       \/ x = <<>> /\ arg \in [trials : HalfSteps, probability : Fractions \cup OutsideFractions]

CallChunk == "chunkSize" \in DOMAIN arg /\ Call("chunk", chunk(x, arg.chunkSize))

CallBinomialDistribution ==
    /\ "trials" \in DOMAIN arg
    /\ Call("binomialDistribution", binomialDistribution(arg.trials, arg.probability))

NextChunk == CallChunk \/ CallBinomialDistribution

SpecChunk == InitChunk /\ [][NextChunk]_vars

(***************************************************************************)
(* C20.  chunk with a chunk size that is not a positive integer fails      *)
(* with an error; with a positive integer chunkSize it returns chunks      *)
(* whose concatenation is x, each of length chunkSize except possibly the  *)
(* last.  binomialDistribution with a trial count that is not a positive   *)
(* integer: as stated it fails with an error; as amended it returns        *)
(* undefined, without an error.                                            *)
(***************************************************************************)
PositiveInteger(r) == r[2] = 1 /\ r[1] >= 1

C20_Chunk ==
    fn = "chunk" =>
        IF PositiveInteger(arg.chunkSize)
        THEN /\ ret.kind = "return"
             /\ Flatten(ret.value) = x
             /\ \A c \in 1..Len(ret.value) :
                    /\ Len(ret.value[c]) \in 1..arg.chunkSize[1]
                    /\ c < Len(ret.value) => Len(ret.value[c]) = arg.chunkSize[1]
        ELSE ret.kind = "throw"

jenksMatrices(data, nClasses) ==
    LET n == Len(data)
        \* sumSquares - (sum * sum) / w over data[l - m] .. data[l - 1]
        varianceOver(l, m) ==
            LET total == SumSeq([i \in 1..m |-> data[l - m + i]])
                totalSquares == SumSeq([i \in 1..m |-> data[l - m + i] * data[l - m + i]])
            IN  RatNorm(<<totalSquares * m - total * total, m>>)
        \* lowerClassLimits[l][1] = 1; varianceCombinations[l][1] = variance
        complete(row, l) ==
            IF l < 2 \/ nClasses < 1 THEN row
            ELSE [lower |-> [row.lower EXCEPT ![1] = 1],
                  variance |-> [row.variance EXCEPT ![1] = varianceOver(l, l)]]
        step[l \in 0..n, m \in 0..n] ==
            IF m = 0 \/ l < 2
            THEN [lower |-> [j \in 0..nClasses |-> IF l = 1 /\ j >= 1 THEN 1 ELSE 0],
                  variance |-> [j \in 0..nClasses |->
                                   IF l >= 2 /\ j >= 1 THEN Infinity ELSE <<0, 1>>]]
            ELSE LET before == step[l, m - 1]
                     lowerClassLimit == l - m + 1
                     i4 == lowerClassLimit - 1
                     sumOf(j) == ExtAdd(varianceOver(l, m), complete(step[i4, i4], i4).variance[j - 1])
                     better(j) == i4 # 0 /\ j >= 2 /\ RatLe(sumOf(j), before.variance[j])
                 IN  [lower |-> [j \in 0..nClasses |->
                                    IF better(j) THEN lowerClassLimit ELSE before.lower[j]],
                      variance |-> [j \in 0..nClasses |->
                                       IF better(j) THEN sumOf(j) ELSE before.variance[j]]]
    IN  [l \in 0..n |-> complete(step[l, l], l)]

\* kclass[countNum - 1] for the countNum the while loop is at, k being the
\* row it reads; a row that does not exist makes the read a TypeError
jenksBreaks(data, lowerClassLimits, nClasses) ==
    LET walk[countNum \in 0..nClasses, k \in (-1)..Len(data)] ==
            IF countNum = 0 THEN Returned(<<>>)
            ELSE IF k < 0 THEN Thrown("TypeError")
            ELSE LET limit == lowerClassLimits[k].lower[countNum]
                     rest == walk[countNum - 1, limit - 1]
                 IN  IF rest.kind = "throw" THEN rest
                     ELSE Returned(Append(rest.value,
                                          IF limit >= 1 THEN <<data[limit]>> ELSE <<>>))
        lower == walk[nClasses, Len(data)]
    IN  IF lower.kind = "throw" THEN lower
        ELSE Returned(Append(lower.value, IF data = <<>> THEN <<>> ELSE <<data[Len(data)]>>))

jenks(data, nClasses) ==
    IF nClasses > Len(data) THEN Returned(<<>>)
    ELSE jenksBreaks(numericSort(data), jenksMatrices(numericSort(data), nClasses), nClasses)

\* the sample of the documented example of jenks
JenksExample == <<1, 2, 4, 5, 7, 9, 10, 20>>

InitClassify ==
    /\ fn = ""
    /\ ret = NotCalled
    /\ frame = NoFrame
    /\ \/ x \in Samples /\ arg \in 0..(MaxLen + 1)
       \/ x = JenksExample /\ arg \in {3, Len(JenksExample) + 1}

CallJenks ==
    /\ fn = ""
    /\ fn' = "jenks"
    /\ ret' = jenks(x, arg)
    /\ UNCHANGED <<x, arg, frame>>

NextClassify == CallCkmeans \/ CallJenks

SpecClassify == InitClassify /\ [][NextClassify]_vars

(***************************************************************************)
(* C21.  ckmeans(x, nClusters) and jenks(data, nClasses) raise an error    *)
(* whenever the requested count exceeds the length of the input, and       *)
(* return no value then.                                                   *)
(***************************************************************************)
C21_TooManyClassesThrows ==
    fn \in {"ckmeans", "jenks"} /\ arg > Len(x) => ret.kind = "throw"

(***************************************************************************)
(* C22.  If all values of a (non-empty) input are identical, ckmeans       *)
(* returns a single cluster holding every input value: as stated, whatever *)
(* cluster count is requested; as amended, for every requested count that  *)
(* does not exceed the number of values, and the call throws otherwise.    *)
(***************************************************************************)
AllIdentical == x # <<>> /\ \A i \in 1..Len(x) : x[i] = x[1]

C22_AsStated ==
    fn = "ckmeans" /\ AllIdentical => ret = Returned(<<x>>)

C22_IdenticalValuesOneCluster ==
    fn = "ckmeans" /\ AllIdentical =>
        IF arg <= Len(x)
        THEN ret = Returned(<<x>>)
        ELSE ret = Thrown("cannot generate more classes than there are data values")

\* several identical values and more than one cluster requested
C22_Witness ==
    /\ fn = "ckmeans"
    /\ AllIdentical
    /\ Len(x) >= 2
    /\ arg >= 2
    /\ ret = Returned(<<x>>)

(***************************************************************************)
(* linearRegression, linearRegressionLine and rSquared, in exact           *)
(* arithmetic.  A point is <<x, y>>; a number is <<num, den>>, NaN, or     *)
(* <<-1, 0>> for -Infinity.  frame.mb holds the object linearRegression    *)
(* returned, from which the line is made.                                  *)
(***************************************************************************)
linearRegression(data) ==
    LET dataLength == Len(data)
        sumX == SumSeq([i \in 1..dataLength |-> data[i][1]])
        sumY == SumSeq([i \in 1..dataLength |-> data[i][2]])
        sumXX == SumSeq([i \in 1..dataLength |-> data[i][1] * data[i][1]])
        sumXY == SumSeq([i \in 1..dataLength |-> data[i][1] * data[i][2]])
        m == Quotient(dataLength * sumXY - sumX * sumY, dataLength * sumXX - sumX * sumX)
    IN  IF dataLength = 1 THEN [m |-> <<0, 1>>, b |-> <<data[1][2], 1>>]
        ELSE IF m = NaN THEN [m |-> NaN, b |-> NaN]
        ELSE [m |-> RatNorm(m),
              b |-> RatNorm(RatSub(<<sumY, dataLength>>, RatMul(m, <<sumX, dataLength>>)))]

\* the function linearRegressionLine(mb) returns, applied to at
linearRegressionLine(mb, at) ==
    IF mb.m = NaN \/ mb.b = NaN THEN NaN ELSE RatAdd(mb.b, RatMul(mb.m, <<at, 1>>))

\* rSquared(x, func) with func = linearRegressionLine(mb)
rSquared(points, mb) ==
    LET length == Len(points)
        sumOfY == SumSeq([i \in 1..length |-> points[i][2]])
        \* length^2 * Math.pow(average - x[j][1], 2), summed
        sumOfSquares == SumSeq([j \in 1..length |->
                                   (sumOfY - length * points[j][2]) * (sumOfY - length * points[j][2])])
        residual(k) == RatSub(<<points[k][2], 1>>, linearRegressionLine(mb, points[k][1]))
        RECURSIVE ErrLoop(_)
        ErrLoop(k) ==
            IF k = 0 THEN <<0, 1>>
            ELSE RatAdd(ErrLoop(k - 1), RatMul(residual(k), residual(k)))
    IN  IF length < 2 THEN <<1, 1>>
        ELSE IF mb.m = NaN \/ mb.b = NaN THEN NaN
        ELSE IF sumOfSquares = 0
        THEN (IF ErrLoop(length)[1] = 0 THEN NaN ELSE <<-1, 0>>)
        ELSE RatNorm(RatSub(<<1, 1>>, RatMul(ErrLoop(length), <<length * length, sumOfSquares>>)))

RegressionPoints == SeqsUpTo((0..(MaxVal - 1)) \X (0..(MaxVal - 1)), MaxLen - 1)

InitRegression ==
    /\ fn = ""
    /\ ret = NotCalled
    /\ frame = NoFrame
    /\ x \in RegressionPoints
    /\ arg = <<>>

CallLinearRegression ==
    /\ fn = ""
    /\ fn' = "linearRegression"
    /\ ret' = Returned(linearRegression(x))
    /\ frame' = [pc |-> "fitted", mb |-> linearRegression(x)]
    /\ UNCHANGED <<x, arg>>

\* the returned line evaluated at the abscissa of one of the points
CallLinearRegressionLine ==
    /\ frame.pc = "fitted"
    /\ \E i \in 1..Len(x) :
           /\ fn' = "linearRegressionLine"
           /\ arg' = i
           /\ ret' = Returned(linearRegressionLine(frame.mb, x[i][1]))
    /\ UNCHANGED <<x, frame>>

CallRSquared ==
    /\ frame.pc = "fitted"
    /\ fn' = "rSquared"
    /\ arg' = <<>>
    /\ ret' = Returned(rSquared(x, frame.mb))
    /\ UNCHANGED <<x, frame>>

NextRegression == CallLinearRegression \/ CallLinearRegressionLine \/ CallRSquared

SpecRegression == InitRegression /\ [][NextRegression]_vars

(***************************************************************************)
(* C23.  For two or more exactly collinear points, the line                *)
(* f = linearRegressionLine(linearRegression(points)) gives                *)
(* f(points[i][0]) = points[i][1] for every i, and rSquared(points, f) = 1 *)
(* (also when all points share one y value).                               *)
(***************************************************************************)
Collinear ==
    \A i, j, k \in 1..Len(x) :
        (x[j][1] - x[i][1]) * (x[k][2] - x[i][2]) = (x[k][1] - x[i][1]) * (x[j][2] - x[i][2])

C23_CollinearRoundTrip ==
    Len(x) >= 2 /\ Collinear =>
        /\ fn = "linearRegressionLine" => ret.value = <<x[arg][2], 1>>
        /\ fn = "rSquared" => ret.value = <<1, 1>>

(***************************************************************************)
(* The descriptive functions and the caller's array.  x is the array the   *)
(* caller passes; a function either hands it to a step that writes in      *)
(* place (Array.prototype.sort, the swaps of quickselect, the swaps of     *)
(* shuffleInPlace) or hands that step a copy made with x.slice().          *)
(* A random source is the sequence of the values its calls return.         *)
(***************************************************************************)
RandomValues == {<<k, MaxLen>> : k \in 0..(MaxLen - 1)}
SteadySources == {[i \in 1..MaxLen |-> r] : r \in RandomValues}

RECURSIVE ShuffleWith_BelowLast(_, _, _, _)
ShuffleWith_BelowLast(arr, length, randomSource, drawn) ==
    IF length > 0
    THEN LET random == randomSource[drawn + 1]
             index == (random[1] * (length - 1)) \div random[2]
         IN  ShuffleWith_BelowLast(
                 [arr EXCEPT ![length] = arr[index + 1], ![index + 1] = arr[length]],
                 length - 1, randomSource, drawn + 1)
    ELSE [x |-> arr, drawn |-> drawn]

\* the while (length > 0) loop of shuffleInPlace with the values of
\* randomSource() in order; drawn counts the calls of randomSource
RECURSIVE ShuffleWith(_, _, _, _)
ShuffleWith(arr, length, randomSource, drawn) ==
    IF length > 0
    THEN LET random == randomSource[drawn + 1]
             index == (random[1] * length) \div random[2]
         IN  ShuffleWith([arr EXCEPT ![length] = arr[index + 1], ![index + 1] = arr[length]],
                         length - 1, randomSource, drawn + 1)
    ELSE [x |-> arr, drawn |-> drawn]

sampleWith(xs, n, randomSource) ==
    LET shuffled == ShuffleWith(xs, Len(xs), randomSource, 0).x
    IN  Slice(shuffled, 0, Min(n, Len(shuffled)))

interquartileRange(xs) ==
    CHOOSE result \in
        {IF q1.kind = "throw" THEN q1
         ELSE IF q2.kind = "throw" THEN q2
         ELSE Returned(RatNorm(RatSub(q1.value, q2.value))) :
             q1 \in {quantile(xs, <<3, 4>>)}, q2 \in {quantile(xs, <<1, 4>>)}} : TRUE

\* the deviations |x[i] - medianValue| are kept doubled, so that they are
\* integers when the median is a half
medianAbsoluteDeviation(xs) ==
    CHOOSE returned \in
        {IF medianValue.kind = "throw" THEN medianValue
         ELSE CHOOSE r \in
                  {IF result.kind = "throw" THEN result
                   ELSE Returned(RatNorm(<<result.value[1], 2 * result.value[2]>>)) :
                       result \in
                           {median([i \in 1..Len(xs) |->
                                       Abs(2 * xs[i] - (medianValue.value[1] * 2)
                                                           \div medianValue.value[2])])}} : TRUE :
             medianValue \in {median(xs)}} : TRUE

\* the function whose in-place step receives the array of the caller
HandsTo(name) ==
    CASE name \in {"numericSort", "mode", "ckmeans"} -> "numericSort"
      [] name \in {"quantile", "median", "medianAbsoluteDeviation", "interquartileRange"}
             -> "quantile"
      [] name \in {"shuffle", "sample"} -> "shuffle"
      [] name = "shuffleInPlace" -> "shuffleInPlace"

Copies_NotInQuantile(name) == name \in {"numericSort", "shuffle"}

\* the functions that run their in-place step on x.slice()
Copies(name) == name \in {"numericSort", "quantile", "shuffle"}

\* the p of the quantile call that receives the array first
FirstFraction(name, a) ==
    CASE name = "quantile" -> a
      [] name = "interquartileRange" -> <<3, 4>>
      [] OTHER -> <<1, 2>>

\* the caller's array after name(xs, a) has run
ArrayAfter(name, xs, a) ==
    IF Copies(HandsTo(name)) THEN xs
    ELSE CASE HandsTo(name) = "numericSort" -> numericSort(xs)
           [] HandsTo(name) = "quantile" -> Unboxed(QuantileCopy(xs, FirstFraction(name, a)))
           [] HandsTo(name) = "shuffle" ->
                  ShuffleWith(xs, Len(xs), IF name = "sample" THEN a[2] ELSE a, 0).x
           [] OTHER -> ShuffleWith(xs, Len(xs), a, 0).x

InitPure ==
    /\ fn = ""
    /\ ret = NotCalled
    /\ frame = [calls |-> 0]
    /\ x \in Samples
    /\ arg = <<>>

\* a call name(x, a); the second call of a run repeats the first
Invoke(name, a, result) ==
    /\ frame.calls < 2
    /\ frame.calls = 1 => fn = name /\ arg = a
    /\ fn' = name
    /\ arg' = a
    /\ ret' = result
    /\ x' = ArrayAfter(name, x, a)
    /\ frame' = [calls |-> frame.calls + 1]

NextPure ==
    \/ Invoke("numericSort", <<>>, Returned(numericSort(x)))
    \/ Invoke("mode", <<>>, mode(x))
    \/ \E p \in {<<0, 1>>, <<1, 4>>, <<1, 2>>, <<1, 1>>} : Invoke("quantile", p, quantile(x, p))
    \/ Invoke("median", <<>>, median(x))
    \/ Invoke("medianAbsoluteDeviation", <<>>, medianAbsoluteDeviation(x))
    \/ Invoke("interquartileRange", <<>>, interquartileRange(x))
    \/ \E source \in SteadySources :
           Invoke("shuffle", source, Returned(ShuffleWith(x, Len(x), source, 0).x))
    \/ \E source \in SteadySources, n \in {1, MaxLen} :
           Invoke("sample", <<n, source>>, Returned(sampleWith(x, n, source)))
    \/ \E nClusters \in 1..2 : Invoke("ckmeans", nClusters, ckmeans(x, nClusters))
    \/ \E source \in SteadySources :
           Invoke("shuffleInPlace", source, Returned(ShuffleWith(x, Len(x), source, 0).x))

SpecPure == InitPure /\ [][NextPure]_vars

(***************************************************************************)
(* C24.  numericSort, mode, quantile, median, medianAbsoluteDeviation,     *)
(* interquartileRange, shuffle, sample and ckmeans leave the caller's      *)
(* array with the same elements in the same order, and a second call with  *)
(* the same input (and the same random draws) gives the same result.       *)
(***************************************************************************)
PureFunctions ==
    {"numericSort", "mode", "quantile", "median", "medianAbsoluteDeviation",
     "interquartileRange", "shuffle", "sample", "ckmeans"}

FactorLabels == {"a", "b", "c", "NaN"}

StrictEquals(a, b) == a = b /\ a # "NaN"

\* levels.indexOf(v): the first index whose label is strictly equal to v,
\* or -1
indexOf(arr, v) ==
    LET found == {i \in 0..(Len(arr) - 1) : StrictEquals(arr[i + 1], v)}
    IN  IF found = {} THEN -1 ELSE CHOOSE i \in found : \A j \in found : i <= j

\* factors.indexOf(g, from) for a number g: the first index at or after
\* from whose element is g, or -1
indexOfFrom(arr, g, from) ==
    LET found == {i \in from..(Len(arr) - 1) : arr[i + 1] = g}
    IN  IF found = {} THEN -1 ELSE CHOOSE i \in found : \A j \in found : i <= j

RECURSIVE FactorLoop_FactorAfterPush(_, _, _)
FactorLoop_FactorAfterPush(i, elements, this) ==
    IF i >= Len(elements) THEN this
    ELSE LET index == indexOf(this.levels, elements[i + 1])
         IN  FactorLoop_FactorAfterPush(i + 1, elements,
                 IF index # -1
                 THEN [this EXCEPT !.factors = Append(@, index)]
                 ELSE [levels |-> Append(this.levels, elements[i + 1]),
                       factors |-> Append(this.factors, Len(this.levels) + 1)])

\* the for loop of the constructor
RECURSIVE FactorLoop(_, _, _)
FactorLoop(i, elements, this) ==
    IF i >= Len(elements) THEN this
    ELSE LET index == indexOf(this.levels, elements[i + 1])
         IN  FactorLoop(i + 1, elements,
                 IF index # -1
                 THEN [this EXCEPT !.factors = Append(@, index)]
                 ELSE [levels |-> Append(this.levels, elements[i + 1]),
                       factors |-> Append(this.factors, Len(this.levels))])

Factor(elements) == FactorLoop(0, elements, [levels |-> <<>>, factors |-> <<>>])

\* the while loop of Factor.prototype.group
RECURSIVE GroupLoop(_, _, _, _)
GroupLoop(this, g, i, indices) ==
    LET next == indexOfFrom(this.factors, g, i + 1)
    IN  IF next # -1 THEN GroupLoop(this, g, next, Append(indices, next)) ELSE indices

group(this, g) == GroupLoop(this, g, -1, <<>>)
groups(this) == Len(this.levels)

InitFactor ==
    /\ fn = ""
    /\ ret = NotCalled
    /\ frame = NoFrame
    /\ x \in SeqsUpTo(FactorLabels, MaxLen)
    /\ arg = <<>>

NewFactor ==
    /\ frame = NoFrame
    /\ frame' = [pc |-> "constructed", this |-> Factor(x)]
    /\ fn' = "Factor"
    /\ UNCHANGED <<x, arg, ret>>

CallGroup ==
    /\ frame # NoFrame
    /\ \E g \in 0..MaxLen :
           /\ fn' = "group"
           /\ arg' = g
           /\ ret' = Returned(group(frame.this, g))
    /\ UNCHANGED <<x, frame>>

CallGroups ==
    /\ frame # NoFrame
    /\ fn' = "groups"
    /\ arg' = <<>>
    /\ ret' = Returned(groups(frame.this))
    /\ UNCHANGED <<x, frame>>

CallLength ==
    /\ frame # NoFrame
    /\ fn' = "length"
    /\ arg' = <<>>
    /\ ret' = Returned(Len(frame.this.factors))
    /\ UNCHANGED <<x, frame>>

NextFactor == NewFactor \/ CallGroup \/ CallGroups \/ CallLength

SpecFactor == InitFactor /\ [][NextFactor]_vars

(***************************************************************************)
(* C25.  For every label sequence, levels lists the distinct labels in     *)
(* first-seen order; factors is as long as the input and factors[i] is the *)
(* position in levels of the i-th label, in 0..groups()-1; group(g) lists  *)
(* in ascending order exactly the indices i with factors[i] = g, so the    *)
(* groups 0..groups()-1 are non-empty, disjoint and cover every index.     *)
(***************************************************************************)
\* the indices (from 0) of the labels not seen before
FirstSeen(elements) ==
    {i \in 0..(Len(elements) - 1) :
        \A j \in 0..(i - 1) : ~StrictEquals(elements[j + 1], elements[i + 1])}

\* the members of a set of integers in ascending order
RECURSIVE Ascending(_)
Ascending(S) ==
    IF S = {} THEN <<>>
    ELSE LET least == CHOOSE i \in S : \A j \in S : i <= j
         IN  <<least>> \o Ascending(S \ {least})

Members(indices) == {indices[n] : n \in 1..Len(indices)}

C25_FactorPartitions ==
    frame # NoFrame =>
        LET this == frame.this
            count == groups(this)
        IN  /\ this.levels = [n \in 1..Cardinality(FirstSeen(x)) |->
                                  x[Ascending(FirstSeen(x))[n] + 1]]
            /\ Len(this.factors) = Len(x)
            /\ \A i \in 1..Len(x) :
                   /\ this.factors[i] \in 0..(count - 1)
                   /\ this.levels[this.factors[i] + 1] = x[i]
            /\ fn = "groups" => ret.value = count
            /\ fn = "length" => ret.value = Len(x)
            /\ fn = "group" =>
                   ret.value = Ascending({i \in 0..(Len(x) - 1) : this.factors[i + 1] = arg})
            /\ \A g \in 0..(count - 1) : group(this, g) # <<>>
            /\ \A g, h \in 0..(count - 1) :
                   g # h => Members(group(this, g)) \cap Members(group(this, h)) = {}
            /\ UNION {Members(group(this, g)) : g \in 0..(count - 1)} = 0..(Len(x) - 1)

C25_Witness ==
    /\ fn = "group"
    /\ Len(ret.value) >= 2
    /\ arg = 1
    /\ groups(frame.this) >= 3
    /\ \E i \in 1..Len(x) : x[i] = "NaN"

(***************************************************************************)
(* kMeansCluster on every point set and cluster count, the empty point set *)
(* and the count 0 included.  The call runs to its end: a pass of the      *)
(* while loop that can be taken is taken.                                  *)
(***************************************************************************)
InitKMeansAll ==
    /\ fn = ""
    /\ ret = NotCalled
    /\ frame = NoFrame
    /\ x \in PointSets \cup {<<>>}
    /\ arg \in 0..(MaxLen + 1)

SpecKMeansRun == InitKMeansAll /\ [][NextKMeans]_vars /\ WF_vars(NextKMeans)

(***************************************************************************)
(* C26.  kMeansCluster terminates for every finite point set, cluster      *)
(* count and random source: the loop either throws the empty-centroid      *)
(* error or reaches, after finitely many passes, a pass whose total        *)
(* centroid movement is exactly zero, and returns only then; on return     *)
(* each centroid is the coordinate-wise mean of the points carrying its    *)
(* label and each label is the lowest index among the nearest centroids.   *)
(***************************************************************************)
KMeansEnded == fn = "kMeansCluster" /\ frame.pc \in {"thrown", "returned"}

\* the coordinate-wise mean of the points with label c
MeanOf(points, labels, c) ==
    LET members == {n \in 1..Len(points) : labels[n] = c}
    IN  [j \in 1..Len(points[1]) |->
            RatNorm(<<SumSeq([n \in 1..Len(points) |->
                                 IF n \in members THEN points[n][j] ELSE 0]),
                      Cardinality(members)>>)]

\* c is the lowest index among the centroids nearest to point
LowestNearest(point, centroids, c) ==
    /\ c \in 0..(Len(centroids) - 1)
    /\ \A e \in 0..(Len(centroids) - 1) :
           LET own == SquaredDistance(AsCentroid(point), centroids[c + 1])
               other == SquaredDistance(AsCentroid(point), centroids[e + 1])
           IN  /\ RatLe(own, other)
               /\ e < c => RatLt(other, own) \/ RatLt(own, other)

C26_OnReturn ==
    fn = "kMeansCluster" /\ frame.pc = "returned" =>
        /\ frame.change = "zero"
        /\ frame.newCentroids = frame.oldCentroids
        /\ ret.value.centroids = frame.newCentroids
        /\ \A c \in 0..(arg - 1) :
               ret.value.centroids[c + 1] = MeanOf(x, ret.value.labels, c)
        /\ \A n \in 1..Len(x) :
               LowestNearest(x[n], ret.value.centroids, ret.value.labels[n])

C26_AsStated ==
    /\ [](/\ C26_OnReturn
          /\ fn = "kMeansCluster" /\ frame.pc = "thrown" =>
                 ret.message.text = "has no friends")
    /\ <>KMeansEnded

C26_Terminates ==
    /\ [](/\ C26_OnReturn
          /\ fn = "kMeansCluster" /\ frame.pc = "thrown" =>
                 IF x = <<>> \/ arg = 0
                 THEN ret.message.text = "TypeError"
                 ELSE ret.message.text = "has no friends")
    /\ <>KMeansEnded

\* a return after more than one pass that moved the centroids
C26_Witness ==
    /\ fn = "kMeansCluster"
    /\ frame.pc = "returned"
    /\ arg >= 2
    /\ \E n \in 1..Len(x) : AsCentroid(x[n]) \notin {ret.value.centroids[c] : c \in 1..arg}

(***************************************************************************)
(* quickselect called on its own.  arg is [k, left, right]; an index left  *)
(* out of the call is <<>> and one given is <<v>>.  x is the array of the  *)
(* caller, which quickselect rearranges; frame keeps its contents before   *)
(* the call.                                                               *)
(***************************************************************************)
GivenOr(index, default) == IF index = <<>> THEN default ELSE index[1]

InitQuickselect ==
    /\ fn = ""
    /\ ret = NotCalled
    /\ frame = NoFrame
    /\ x \in Samples \ {<<>>}
    /\ \E k \in 0..(Len(x) - 1) :
       \E left \in {<<>>} \cup {<<v>> : v \in 0..k} :
       \E right \in {<<>>} \cup {<<v>> : v \in k..(Len(x) - 1)} :
           arg = [k |-> k, left |-> left, right |-> right]

\* undefined || d and 0 || d are both d
CallQuickselect ==
    /\ fn = ""
    /\ fn' = "quickselect"
    /\ x' = Unboxed(quickselect(Boxed(x), arg.k, GivenOr(arg.left, 0), GivenOr(arg.right, 0)))
    /\ frame' = [pc |-> "returned", original |-> x]
    /\ ret' = Returned(<<>>)
    /\ arg' = arg

NextQuickselect == CallQuickselect

SpecQuickselect == InitQuickselect /\ [][NextQuickselect]_vars

(***************************************************************************)
(* C27.  For 0 <= left <= k <= right < arr.length, with left and right     *)
(* given (the value 0 included) or left out, quickselect(arr, k, left,     *)
(* right) leaves arr a permutation of its contents in which arr[k] is the  *)
(* (k - left + 1)-th smallest value of the original range [left, right],   *)
(* the items in [left, k] are <= arr[k] and those in [k, right] >= arr[k]. *)
(***************************************************************************)
C27_KthInPlace ==
    fn = "quickselect" =>
        LET original == frame.original
            k == arg.k
            left == GivenOr(arg.left, 0)
            right == GivenOr(arg.right, Len(original) - 1)
        IN  /\ IsPermutationOf(x, original)
            /\ x[k + 1] = numericSort(SubSeq(original, left + 1, right + 1))[k - left + 1]
            /\ \A i \in left..k : x[i + 1] <= x[k + 1]
            /\ \A i \in k..right : x[i + 1] >= x[k + 1]

(***************************************************************************)
(* shuffleInPlace and sample with every random source.  The arrays are     *)
(* listed in ascending order (the shuffle never compares elements) and are *)
(* shorter than MaxLen; arg is [n, randomSource].                          *)
(***************************************************************************)
ShuffleSamples == {s \in SeqsUpTo(Values, MaxLen - 1) : IsSorted(s)}
Sources(n) == [1..n -> RandomValues]

InitShuffle ==
    /\ fn = ""
    /\ ret = NotCalled
    /\ frame = NoFrame
    /\ x \in ShuffleSamples
    /\ arg = <<>>

CallShuffleInPlace ==
    /\ fn = ""
    /\ fn' = "shuffleInPlace"
    /\ \E randomSource \in Sources(Len(x)) :
           LET shuffled == ShuffleWith(x, Len(x), randomSource, 0)
           IN  /\ arg' = [n |-> <<>>, randomSource |-> randomSource]
               /\ x' = shuffled.x
               /\ ret' = Returned(shuffled.x)
               /\ frame' = [pc |-> "returned", original |-> x, drawn |-> shuffled.drawn]

CallSample ==
    /\ fn = ""
    /\ fn' = "sample"
    /\ \E randomSource \in Sources(Len(x)), n \in 0..MaxLen :
           /\ arg' = [n |-> <<n>>, randomSource |-> randomSource]
           /\ ret' = Returned(sampleWith(x, n, randomSource))
           /\ frame' = [pc |-> "returned", original |-> x,
                        drawn |-> ShuffleWith(x, Len(x), randomSource, 0).drawn]
    /\ x' = x

NextShuffle == CallShuffleInPlace \/ CallSample

SpecShuffle == InitShuffle /\ [][NextShuffle]_vars

(***************************************************************************)
(* C28.  For every array x and random source with values in [0,1),         *)
(* shuffleInPlace draws exactly x.length times and leaves x a permutation  *)
(* of its contents; over all random sources its results are exactly the    *)
(* permutations of x; sample(x, n, randomSource) returns the first         *)
(* min(n, x.length) elements of such a permutation of a copy.              *)
(***************************************************************************)
\* every arrangement of the elements of s
RECURSIVE Arrangements(_)
Arrangements(s) ==
    IF s = <<>> THEN {<<>>}
    ELSE UNION {{<<s[i]>> \o rest :
                    rest \in Arrangements(SubSeq(s, 1, i - 1) \o SubSeq(s, i + 1, Len(s)))} :
                i \in 1..Len(s)}

C28_ShufflePermutes ==
    /\ fn = "" =>
           {ShuffleWith(x, Len(x), randomSource, 0).x : randomSource \in Sources(Len(x))}
               = Arrangements(x)
    /\ fn = "shuffleInPlace" =>
           /\ frame.drawn = Len(frame.original)
           /\ x \in Arrangements(frame.original)
           /\ ret.value = x
    /\ fn = "sample" =>
           /\ x = frame.original
           /\ Len(ret.value) = Min(arg.n[1], Len(x))
           /\ \E shuffled \in Arrangements(x) : ret.value = SubSeq(shuffled, 1, Len(ret.value))

C28_Witness ==
    /\ fn = "sample"
    /\ Len(x) >= 3
    /\ arg.n[1] = 2
    /\ ret.value # SubSeq(x, 1, 2)
    /\ ret.value[1] # ret.value[2]

(***************************************************************************)
(* The documented example of PerceptronModel: a fresh model is trained     *)
(* with five rounds of four examples, each call with an array of its own,  *)
(* and is asked for predictions along the way.  frame.trains counts the    *)
(* calls of train made so far.                                             *)
(***************************************************************************)
DocumentedRounds == 5
DocumentedExamples ==
    <<[features |-> <<1, 1>>, label |-> 1],
      [features |-> <<0, 1>>, label |-> 0],
      [features |-> <<1, 0>>, label |-> 0],
      [features |-> <<0, 0>>, label |-> 0]>>

PredictArrays == SeqsUpTo({0, 1}, Len(DocumentedExamples[1].features) + 1)

InitDocumented ==
    /\ fn = ""
    /\ x = <<>>
    /\ arg = <<>>
    /\ ret = NotCalled
    /\ frame = [heap |-> <<>>, weights |-> 0, bias |-> 0, trains |-> 0]

\* the next p.train(features, label) of the for loop
DocumentedTrain ==
    /\ frame.trains < DocumentedRounds * Len(DocumentedExamples)
    /\ LET example == DocumentedExamples[(frame.trains % Len(DocumentedExamples)) + 1]
           created == [frame EXCEPT !.heap = Append(@, example.features)]
       IN  /\ fn' = "PerceptronModel.train"
           /\ x' = example.features
           /\ arg' = example.label
           /\ ret' = Returned("this")
           /\ frame' = [perceptronTrain(created, Len(created.heap), example.label)
                            EXCEPT !.trains = @ + 1]

\* p.predict(features) with an array of its own
DocumentedPredict ==
    /\ \E features \in PredictArrays :
           /\ fn' = "PerceptronModel.predict"
           /\ x' = features
           /\ ret' = Returned(perceptronPredict(frame, features))
    /\ arg' = <<>>
    /\ UNCHANGED frame

NextDocumented == DocumentedTrain \/ DocumentedPredict

SpecDocumented == InitDocumented /\ [][NextDocumented]_vars

(***************************************************************************)
(* C29.  After the documented training sequence a fresh PerceptronModel    *)
(* classifies the AND function: predict([0,0]) = predict([0,1]) =          *)
(* predict([1,0]) = 0 and predict([1,1]) = 1; and predict returns null,    *)
(* not 0 or 1, whenever the length of the feature vector differs from the  *)
(* current weight count, in particular before any training.                *)
(***************************************************************************)
DocumentedDone == frame.trains = DocumentedRounds * Len(DocumentedExamples)

C29_LearnsAnd ==
    fn = "PerceptronModel.predict" =>
        /\ DocumentedDone /\ Len(x) = 2 =>
               ret.value = <<IF x = <<1, 1>> THEN 1 ELSE 0>>
        /\ Len(x) # Len(Deref(frame.heap, frame.weights)) => ret.value = <<>>
        /\ frame.trains = 0 /\ x # <<>> => ret.value = <<>>
        /\ Len(x) = Len(Deref(frame.heap, frame.weights)) => ret.value \in {<<0>>, <<1>>}

C29_Witness ==
    /\ fn = "PerceptronModel.predict"
    /\ DocumentedDone
    /\ x = <<1, 1>>
    /\ ret.value = <<1>>

(***************************************************************************)
(* The academic-pressure and financial-stress pages.  rawData is the       *)
(* result of the query: one row for each level present, in ascending       *)
(* order of level.  A row is [level, percent], percent being               *)
(* "Procent depressiva" in hundredths of a percentage point (the query     *)
(* rounds to 2 decimals on the first page and to 1 on the second); the     *)
(* student counts of a row do not enter the reported difference and are    *)
(* left out.  x is rawData, arg the page, frame the content shown.         *)
(***************************************************************************)
DropdownLevels == 5
Pages == {"academic-pressure", "financial-stress"}

Percents(page) ==
    IF page = "academic-pressure" THEN {v * 5 : v \in Values} ELSE {v * 10 : v \in Values}

RawData(page) ==
    UNION {{[n \in 1..Len(levels) |-> [level |-> levels[n], percent |-> percents[n]]] :
               percents \in [1..Len(levels) -> Percents(page)]} :
           levels \in {Ascending(S) : S \in SUBSET (1..DropdownLevels)}}

\* Number.prototype.toFixed(1) of h hundredths, in tenths: the nearest
\* tenth; halfway between two tenths the binary value of the number
\* decides, and either neighbour can come out
toFixed1(h) ==
    IF h % 10 = 5 THEN {h \div 10, h \div 10 + 1} ELSE {(h + 5) \div 10}

\* the maxDiff of generateAnalysis(data), for data that is not empty
maxDiff(data) == toFixed1(data[Len(data)].percent - data[1].percent)

\* rawData.filter(row => row.level === Number(selectedLevel))
FilterLevel(rows, selectedLevel) == SelectSeq(rows, LAMBDA row : row.level = selectedLevel)

InitPages ==
    /\ fn = ""
    /\ ret = NotCalled
    /\ arg \in Pages
    /\ x \in RawData(arg)
    /\ frame = [selected |-> "none"]

\* updateContent(selectedLevel); the level 0 stands for 'Alla nivåer'
updateContent ==
    /\ \E selectedLevel \in 0..DropdownLevels :
           LET filteredData == IF selectedLevel = 0 THEN x ELSE FilterLevel(x, selectedLevel)
           IN  IF Len(filteredData) = 0
               THEN frame' = [selected |-> selectedLevel, table |-> filteredData,
                              analysis |-> [text |-> "empty"]]
               ELSE \E reported \in maxDiff(filteredData) :
                        frame' = [selected |-> selectedLevel, table |-> filteredData,
                                  analysis |-> [text |-> "Sammanfattning", maxDiff |-> reported]]
    /\ fn' = "updateContent"
    /\ ret' = Returned(<<>>)
    /\ UNCHANGED <<x, arg>>

NextPages == updateContent

SpecPages == InitPages /\ [][NextPages]_vars

(***************************************************************************)
(* C30.  generateAnalysis(data) returns the empty string for an empty row  *)
(* list; for a row list that is not empty the difference it reports        *)
(* between highest and lowest is the maximum minus the minimum of the      *)
(* "Procent depressiva" of the rows shown, hence never negative, whatever  *)
(* the level selected and the order of the percentages across levels.      *)
(***************************************************************************)
ShownPercents == {frame.table[n].percent : n \in 1..Len(frame.table)}

C30_DifferenceIsMaxMinusMin ==
    fn = "updateContent" =>
        IF frame.table = <<>> THEN frame.analysis.text = "empty"
        ELSE /\ frame.analysis.text # "empty"
             /\ frame.analysis.maxDiff >= 0
             /\ \E highest, lowest \in ShownPercents :
                    /\ \A p \in ShownPercents : lowest <= p /\ p <= highest
                    /\ frame.analysis.maxDiff \in toFixed1(highest - lowest)

====
